---- MODULE Spec2Model ----
(***************************************************************************)
(* lds-imgx: the cache-aware, concurrency-bounded batch pipeline `imgx`    *)
(* (src/unnamed/part_000), modelled over a small filesystem: input files   *)
(* with modification times, output files, the durable cache file           *)
(* .imgx-cache.json and the manifest file imgx-manifest.json.              *)
(*                                                                         *)
(* Every `await` of the source is a step boundary: the code between two    *)
(* awaits runs atomically (one JavaScript thread), and a rejected await is *)
(* a nondeterministic branch of the step that awaits it.                   *)
(***************************************************************************)
EXTENDS Integers, Sequences, FiniteSets, TLC

(* ------------------------------ bounds -------------------------------- *)
\* number of input files the glob can match
NumFiles == 2
\* number of imgx runs in one behaviour
MaxRuns == 2
\* the filesystem clock runs from 1 to MaxTime
MaxTime == 2

(* ------------------------- program constants --------------------------- *)
DefaultWidth == 1000
DefaultQuality == 78
DefaultEffort == 6

\* An optional option: <<>> is `undefined`, <<v>> is the value v.
Undef == <<>>
Some(v) == <<v>>
IsSet(x) == x # <<>>
\* destructuring default `name = d` (lines 319-338)
OrDefault(x, d) == IF x = <<>> THEN d ELSE x[1]

Max(a, b) == IF a > b THEN a ELSE b
Min(a, b) == IF a < b THEN a ELSE b

(* ------------------------------ universe ------------------------------- *)
\* An input file is <<base, ext>>: its path relative to the input root is
\* base.ext.  globby returns absolute paths; path.relative(input, abs) and
\* path.relative(process.cwd(), abs) are injective in abs for a fixed root,
\* so one value stands for abs, rel and the cache key.
\* The files any input root holds, in globby's directory order: photo 1
\* as a jpg and as a png, the others as jpg, three photos at least.
FileList ==
  <<<<1, "jpg">>, <<1, "png">>>>
    \o [i \in 1..(Max(NumFiles, 3) - 1) |-> <<i + 1, "jpg">>]
AllFiles == {FileList[i] : i \in 1..Len(FileList)}
\* the files under the input root of a call over NumFiles inputs
GlobFiles == {<<b, "jpg">> : b \in 1..NumFiles}

AllSizes == {640, 1000}
AllFormats == {"webp", "avif"}
\* a suffix pattern is a sequence of tokens; "{w}" is the placeholder
SuffixW == <<"{w}", "w">>
SuffixPx == <<"{w}", "px">>
AllSuffixes == {SuffixW, SuffixPx}

\* rel = path.relative(input, abs)
Rel(abs) == abs
\* cacheKey = path.relative(process.cwd(), abs)
CacheKey(abs) == abs
\* baseName = rel.replace(/\.[^.]+$/, "")
BaseName(rel) == rel[1]

RECURSIVE ReplaceFirst(_, _, _)
\* String.prototype.replace(pattern, by) with a string pattern: the first
\* occurrence only
ReplaceFirst(s, pat, by) ==
  IF s = <<>> THEN <<>>
  ELSE IF Head(s) = pat THEN <<by>> \o Tail(s)
  ELSE <<Head(s)>> \o ReplaceFirst(Tail(s), pat, by)

\* sizeSuffix = suffix.replace("{w}", size.toString())
SizeSuffix(suffix, size) == ReplaceFirst(suffix, "{w}", ToString(size))

\* outPath = `${outBase}-${sizeSuffix}.${fmt}`
OutPath(outBase, sizeSuffix, fmt) ==
  [base |-> outBase, suffix |-> sizeSuffix, fmt |-> fmt]

\* path.dirname(outPath): the inputs lie in directories of their own, and
\* the output tree mirrors the input tree
Dirname(path) == path.base

AllPaths ==
  {OutPath(BaseName(f), SizeSuffix(sfx, s), fmt) :
     f \in AllFiles, sfx \in AllSuffixes, s \in AllSizes, fmt \in AllFormats}

\* a file of the output tree; NoFile is a path that does not exist
NoFile == [exists |-> FALSE, mtime |-> 0, width |-> 0, quality |-> 0]
OutFile(t, w, q) == [exists |-> TRUE, mtime |-> t, width |-> w, quality |-> q]

(* ----------------------------- options --------------------------------- *)
\* const sizesToProcess = sizes || [width]   (width = 1000 by default)
SizesToProcess(o) ==
  IF IsSet(o.sizes) THEN o.sizes[1] ELSE <<OrDefault(o.width, DefaultWidth)>>
Formats(o) == OrDefault(o.formats, <<"webp">>)
Suffix(o) == OrDefault(o.suffix, SuffixW)
Quality(o) == OrDefault(o.quality, DefaultQuality)
Effort(o) == OrDefault(o.effort, DefaultEffort)
WithoutEnlargement(o) == OrDefault(o.withoutEnlargement, TRUE)
Force(o) == OrDefault(o.force, FALSE)
DryRun(o) == OrDefault(o.dryRun, FALSE)

\* a digest that also covers the concurrency
GenerateSettingsHashWithConcurrency(o) ==
  <<o.width, o.height, o.sizes, o.formats, o.suffix, o.quality,
    o.effort, o.stripMetadata, o.withoutEnlargement, o.concurrency>>
\* a digest that leaves the quality out
GenerateSettingsHashNoQuality(o) ==
  <<o.width, o.height, o.sizes, o.formats, o.suffix, Undef,
    o.effort, o.stripMetadata, o.withoutEnlargement>>
\* sha1(JSON.stringify({width, height, sizes, formats, suffix, quality,
\* effort, stripMetadata, withoutEnlargement})) of the options AS PASSED:
\* the digest is taken as injective, so the tuple of the nine fields stands
\* for it (JSON.stringify drops a field that is undefined).
GenerateSettingsHash(o) ==
  <<o.width, o.height, o.sizes, o.formats, o.suffix, o.quality,
    o.effort, o.stripMetadata, o.withoutEnlargement>>

\* a loop over the sizes alone
NumPairsSizesOnly(o) == Len(SizesToProcess(o))
\* the (size, format) pairs in loop order: sizes outer, formats inner
NumPairs(o) == Len(SizesToProcess(o)) * Len(Formats(o))
\* sizes running in the inner loop
PairSizeInner(o, k) == SizesToProcess(o)[((k - 1) % Len(SizesToProcess(o))) + 1]
PairSize(o, k) == SizesToProcess(o)[((k - 1) \div Len(Formats(o))) + 1]
PairFmt(o, k) == Formats(o)[((k - 1) % Len(Formats(o))) + 1]
PairPath(rel, o, k) ==
  OutPath(BaseName(rel), SizeSuffix(Suffix(o), PairSize(o, k)), PairFmt(o, k))
\* allOutputs (lines 386-393)
AllOutputs(rel, o) == [k \in 1..NumPairs(o) |-> PairPath(rel, o, k)]

(* ------------------------------ cache ---------------------------------- *)
\* The value JSON.parse yields for the cache file: an object (a mapping
\* from cache key to CacheEntry, here the set of its entries) or null.
EmptyCache == [kind |-> "object", recs |-> {}]
NullCache == [kind |-> "null", recs |-> {}]

\* the content of the cache file on disk
MissingFile == [kind |-> "missing", recs |-> {}]
GarbageFile == [kind |-> "garbage", recs |-> {}]

\* try { return JSON.parse(await fs.readFile(cachePath)) } catch { return {} }
LoadCache(file) ==
  IF file.kind \in {"missing", "garbage"} THEN EmptyCache ELSE file

\* fs.writeFile(cachePath, JSON.stringify(cache, null, 2))
\* a save that loses the records
SaveCacheEmpty(cache) == EmptyCache
SaveCache(cache) == cache

\* a CacheEntry under its key; ts is Date.now() at the assignment
CacheEntry(abs, mtime, hash, outs, ts) ==
  [key |-> CacheKey(abs), inputPath |-> abs, inputMtime |-> mtime,
   settingsHash |-> hash, outputFiles |-> outs, timestamp |-> ts]

\* cache[cacheKey] of an object: the entry, or undefined
HasEntry(cache, key) == \E r \in cache.recs : r.key = key
EntryOf(cache, key) == CHOOSE r \in cache.recs : r.key = key
\* cache[cacheKey] = entry: the previous entry of the key is replaced
PutEntry(cache, entry) ==
  [cache EXCEPT !.recs = {r \in @ : r.key # entry.key} \cup {entry}]

(* --------------------------- shouldSkipFile ---------------------------- *)
NoSkip == [skip |-> FALSE, reason |-> "none"]
SkipCached == [skip |-> TRUE, reason |-> "cached (up to date)"]
SkipNewer == [skip |-> TRUE, reason |-> "output newer than input"]

\* a scan that passes over an output it cannot stat
RECURSIVE ScanOutputsSkipsMissing(_, _, _, _)
ScanOutputsSkipsMissing(outputFiles, fs, k, newest) ==
  IF k > Len(outputFiles) THEN [allOutputsExist |-> TRUE, newest |-> newest]
  ELSE IF ~fs[outputFiles[k]].exists
       THEN ScanOutputsSkipsMissing(outputFiles, fs, k + 1, newest)
       ELSE ScanOutputsSkipsMissing(outputFiles, fs, k + 1,
                                    Max(newest, fs[outputFiles[k]].mtime))

RECURSIVE ScanOutputs(_, _, _, _)
\* the loop of lines 287-298: stat each output in order; the first one that
\* cannot be stat'ed clears allOutputsExist and ends the loop
ScanOutputs(outputFiles, fs, k, newest) ==
  IF k > Len(outputFiles) THEN [allOutputsExist |-> TRUE, newest |-> newest]
  ELSE IF ~fs[outputFiles[k]].exists
       THEN [allOutputsExist |-> FALSE, newest |-> newest]
       ELSE ScanOutputs(outputFiles, fs, k + 1,
                        Max(newest, fs[outputFiles[k]].mtime))

\* lines 300-310, reached with all outputs present and the newest one newer
\* than the input: cache[cacheKey] of null throws a TypeError, which the
\* catch of line 313 turns into { skip: false }
CacheVerdict(cache, key, settingsHash) ==
  IF cache.kind = "null" THEN NoSkip
  ELSE IF HasEntry(cache, key)
          /\ EntryOf(cache, key).settingsHash = settingsHash
       THEN SkipCached
  ELSE SkipNewer

\* lines 268-316.  inputStat is the outcome of fs.stat(inputPath).
\* a decision that takes an output as old as the input for fresh
ShouldSkipFileOlderOrEqual(inputStat, key, outputFiles, settingsHash, force, cache, fs) ==
  IF force THEN NoSkip
  ELSE IF ~inputStat.ok THEN NoSkip
  ELSE LET scan == ScanOutputs(outputFiles, fs, 1, 0)
       IN IF scan.allOutputsExist /\ scan.newest >= inputStat.mtime
          THEN CacheVerdict(cache, key, settingsHash)
          ELSE NoSkip
\* a decision that does not look at force
ShouldSkipFileIgnoringForce(inputStat, key, outputFiles, settingsHash, force, cache, fs) ==
  IF ~inputStat.ok THEN NoSkip
  ELSE LET scan == ScanOutputs(outputFiles, fs, 1, 0)
       IN IF scan.allOutputsExist /\ scan.newest > inputStat.mtime
          THEN CacheVerdict(cache, key, settingsHash)
          ELSE NoSkip
ShouldSkipFile(inputStat, key, outputFiles, settingsHash, force, cache, fs) ==
  IF force THEN NoSkip
  ELSE IF ~inputStat.ok THEN NoSkip
  ELSE LET scan == ScanOutputs(outputFiles, fs, 1, 0)
       IN IF scan.allOutputsExist /\ scan.newest > inputStat.mtime
          THEN CacheVerdict(cache, key, settingsHash)
          ELSE NoSkip

(* ------------------------------- state --------------------------------- *)
VARIABLES
  now,           \* the clock behind Date.now() and the files' mtimes
  inputs,        \* the input files under the input root
  inMtime,       \* input file -> its modification time
  inWidth,       \* input file -> the pixel width of the image
  outDirs,       \* the directories that exist under the output root
  outFs,         \* output path -> the file there, or NoFile
  cacheFile,     \* the content of <output>/.imgx-cache.json
  manifestFile,  \* the content of <output>/imgx-manifest.json
  pc,            \* where the running imgx call is
  opts,          \* its argument
  files,         \* the paths globby returned
  cache,         \* the loaded cache, updated by the tasks
  settingsHash,  \* generateSettingsHash(opts)
  results,       \* Array<{in, out}>
  skippedFiles,  \* Array<{file, reason}>: inputs whose task threw
  cachedFiles,   \* Array<{file, reason}>: inputs that were skipped
  manifest,      \* rel -> manifest entries
  queue,         \* p-limit: the tasks not started yet, in order
  active,        \* p-limit: the tasks started and not settled
  task,          \* input file -> the position and locals of its task
  runs,          \* number of imgx calls so far
  codecCalls,    \* number of instance.toBuffer() calls of this run
  prev,          \* what the previous call did (history)
  dirty,         \* the filesystem changed since the previous call ended
  helper         \* the call of an HTML helper or of the CLI: arguments, result

durable == <<now, inputs, inMtime, inWidth, helper, outDirs, outFs, cacheFile, manifestFile>>
aggregates == <<results, skippedFiles, cachedFiles, manifest>>
runvars == <<pc, opts, files, settingsHash, runs, prev, dirty>>
vars == <<now, inputs, inMtime, inWidth, helper, outDirs, outFs, cacheFile, manifestFile, pc, opts,
          files, cache, settingsHash, results, skippedFiles, cachedFiles,
          manifest, queue, active, task, runs, codecCalls, prev, dirty>>

\* no helper and no command line is running
NoHelper == [pc |-> "none", entries |-> <<>>, arg |-> Undef, ret |-> <<>>]

NoOpts ==
  [width |-> Undef, height |-> Undef, sizes |-> Undef, formats |-> Undef,
   suffix |-> Undef, quality |-> Undef, effort |-> Undef,
   stripMetadata |-> Undef, withoutEnlargement |-> Undef,
   concurrency |-> Undef, force |-> Undef, dryRun |-> Undef,
   input |-> Undef, output |-> Undef, pattern |-> Undef,
   sharpCacheFiles |-> Undef, verbose |-> Undef, quiet |-> Undef]

\* the calls made: two sizes, one format, and every combination of quality,
\* force, dryRun and concurrency
BaseOptions ==
  [NoOpts EXCEPT !.sizes = Some(<<640, 1000>>),
                 !.input = Some("src"), !.output = Some("dist")]
OptionsWith(q, fo, dr, c) ==
  [BaseOptions EXCEPT !.quality = Some(q), !.force = Some(fo),
                      !.dryRun = Some(dr), !.concurrency = Some(c)]
RunOptions ==
  {OptionsWith(q, fo, dr, c) :
     q \in {78, 90}, fo \in BOOLEAN, dr \in BOOLEAN, c \in 1..NumFiles}

NoTask ==
  [pc |-> "none", k |-> 0, entries |-> <<>>, thrown |-> "none", broke |-> FALSE]
NoPrev ==
  [valid |-> FALSE, opts |-> NoOpts, allProcessed |-> FALSE,
   outFs |-> [p \in AllPaths |-> NoFile]]

\* no call made yet
NotCalled ==
  /\ pc = "idle"
  /\ opts = NoOpts
  /\ files = <<>>
  /\ cache = EmptyCache
  /\ settingsHash = GenerateSettingsHash(NoOpts)
  /\ results = <<>>
  /\ skippedFiles = <<>>
  /\ cachedFiles = <<>>
  /\ manifest = <<>>
  /\ queue = <<>>
  /\ active = {}
  /\ task = [f \in AllFiles |-> NoTask]
  /\ runs = 0
  /\ codecCalls = 0
  /\ prev = NoPrev
  /\ dirty = FALSE

\* imgx(o) has been called and awaits globby (lines 318-348)
Called(o) ==
  /\ pc = "glob"
  /\ opts = o
  /\ files = <<>>
  /\ cache = EmptyCache
  /\ settingsHash = GenerateSettingsHash(NoOpts)
  /\ results = <<>>
  /\ skippedFiles = <<>>
  /\ cachedFiles = <<>>
  /\ manifest = <<>>
  /\ queue = <<>>
  /\ active = {}
  /\ task = [f \in AllFiles |-> NoTask]
  /\ runs = 1
  /\ codecCalls = 0
  /\ prev = NoPrev
  /\ dirty = FALSE

(* --------------------------- imgx: the call ---------------------------- *)
Idle == pc \in {"idle", "done", "failed"}

\* every input was processed by its task (not skipped, nothing thrown)
AllProcessed ==
  /\ pc = "done"
  /\ ~DryRun(opts)
  /\ Len(files) > 0
  /\ \A i \in 1..Len(files) :
       /\ task[files[i]].thrown = "none"
       /\ \E j \in 1..Len(results) : results[j].in = Rel(files[i])
       /\ \A j \in 1..Len(cachedFiles) : cachedFiles[j].file # Rel(files[i])

\* globby(pattern, {cwd: input, absolute: true}): the matching files, in
\* directory order
Globby(present) == SelectSeq(FileList, LAMBDA f : f \in present)

\* imgx(o) is called: lines 318-348, up to `await globby(...)`
StartRun(o) ==
  /\ Idle
  /\ runs < MaxRuns
  /\ pc' = "glob"
  /\ opts' = o
  /\ runs' = runs + 1
  /\ prev' = [valid |-> pc = "done", opts |-> opts,
              allProcessed |-> AllProcessed /\ ~dirty, outFs |-> outFs]
  /\ dirty' = FALSE
  /\ files' = <<>>
  /\ cache' = EmptyCache
  /\ settingsHash' = GenerateSettingsHash(NoOpts)
  /\ results' = <<>>
  /\ skippedFiles' = <<>>
  /\ cachedFiles' = <<>>
  /\ manifest' = <<>>
  /\ queue' = <<>>
  /\ active' = {}
  /\ task' = [f \in AllFiles |-> NoTask]
  /\ codecCalls' = 0
  /\ UNCHANGED durable

\* a call that goes on with no file
GlobNoEarlyReturn ==
  /\ pc = "glob"
  /\ files' = Globby(inputs)
  /\ pc' = "load"
  /\ UNCHANGED <<durable, opts, cache, settingsHash, aggregates, queue,
                 active, task, runs, codecCalls, prev, dirty>>
\* globby resolves (lines 348-362); with no file the call returns at once
Glob ==
  /\ pc = "glob"
  /\ files' = Globby(inputs)
  /\ pc' = IF Len(Globby(inputs)) = 0 THEN "done" ELSE "load"
  /\ UNCHANGED <<durable, opts, cache, settingsHash, aggregates, queue,
                 active, task, runs, codecCalls, prev, dirty>>

\* loadCache resolves (lines 363-377): the hash is computed and every file
\* is handed to limit(), which queues it
Load ==
  /\ pc = "load"
  /\ cache' = LoadCache(cacheFile)
  /\ settingsHash' = GenerateSettingsHash(opts)
  /\ queue' = files
  /\ task' = [f \in AllFiles |->
                IF \E i \in 1..Len(files) : files[i] = f
                THEN [NoTask EXCEPT !.pc = "queued"] ELSE NoTask]
  /\ pc' = "dispatch"
  /\ UNCHANGED <<durable, opts, files, aggregates, active, runs, codecCalls,
                 prev, dirty>>

(* ------------------------------ p-limit -------------------------------- *)
\* pLimit(concurrency): a queued function is started when fewer than
\* `concurrency` are running, in queue order
\* a pool without a limit
MayStartUnbounded == queue # <<>>
\* a pool that starts nothing while a started task is stuck in the codec
MayStartNoneHung ==
  /\ queue # <<>>
  /\ Cardinality(active) < opts.concurrency[1]
  /\ \A f \in active : task[f].pc # "hung"
MayStart == queue # <<>> /\ Cardinality(active) < opts.concurrency[1]

StartTask ==
  /\ pc = "dispatch"
  /\ MayStart
  /\ active' = active \cup {Head(queue)}
  /\ queue' = Tail(queue)
  /\ task' = [task EXCEPT ![Head(queue)].pc = "check"]
  /\ UNCHANGED <<durable, runvars, cache, aggregates, codecCalls>>

(* --------------------------- the codec (sharp) ------------------------- *)
\* resize({width: size, fit: "inside", withoutEnlargement}) followed by the
\* encoder of the format; opts.height is left undefined in every call made
EncodedWidth(f, o, k) ==
  IF WithoutEnlargement(o) THEN Min(PairSize(o, k), inWidth[f])
  ELSE PairSize(o, k)
\* webp/jpeg: quality; avif: Math.min(quality, 60)
EncodedQuality(o, k) ==
  IF PairFmt(o, k) = "avif" THEN Min(Quality(o), 60) ELSE Quality(o)

\* /-(\d+)w\./ on an output path: the size suffix is digits followed by "w"
SizeMatch(path) ==
  /\ Len(path.suffix) = 2
  /\ path.suffix[2] = "w"
  /\ \E n \in AllSizes : ToString(n) = path.suffix[1]
ParseInt(tok) == CHOOSE n \in AllSizes : ToString(n) = tok

Stat(fs, path) == IF path \in DOMAIN fs THEN fs[path] ELSE NoFile

\* lines 501-508
ProcessedEntry(rel, o, k, file) ==
  [src |-> PairPath(rel, o, k),
   width |-> IF file.width # 0 THEN file.width ELSE PairSize(o, k),
   height |-> file.width,
   format |-> PairFmt(o, k),
   bytes |-> <<file.width, file.quality>>,
   originalFile |-> rel]

\* lines 416-431
ReconEntry(rel, path, file) ==
  [src |-> path,
   width |-> IF SizeMatch(path) THEN ParseInt(path.suffix[1]) ELSE file.width,
   height |-> file.width,
   format |-> path.fmt,
   bytes |-> <<file.width, file.quality>>,
   originalFile |-> rel]

(* ------------------------- imgx: one task ------------------------------ *)
\* the catch of lines 558-567: the task settles, its siblings go on
\* a catch that records nothing
CatchDropsError(f, reason) ==
  /\ skippedFiles' = skippedFiles
  /\ task' = [task EXCEPT ![f].pc = "done", ![f].thrown = reason]
  /\ active' = active \ {f}
Catch(f, reason) ==
  /\ skippedFiles' = Append(skippedFiles, [file |-> Rel(f), reason |-> reason])
  /\ task' = [task EXCEPT ![f].pc = "done", ![f].thrown = reason]
  /\ active' = active \ {f}

\* lines 439-447: the end of the skip branch
FinishSkip(f, entries) ==
  /\ results' = Append(results, [in |-> Rel(f), out |-> AllOutputs(Rel(f), opts)])
  /\ manifest' = (Rel(f) :> entries) @@ manifest
  /\ task' = [task EXCEPT ![f].pc = "done", ![f].entries = entries]
  /\ active' = active \ {f}

\* a task that assigns a manifest it read before the other tasks wrote
AfterLoopLosesManifest(f, entries) ==
  /\ results' = Append(results, [in |-> Rel(f), out |-> AllOutputs(Rel(f), opts)])
  /\ manifest' = (Rel(f) :> entries)
  /\ IF DryRun(opts)
     THEN /\ task' = [task EXCEPT ![f].pc = "done", ![f].entries = entries]
          /\ active' = active \ {f}
     ELSE /\ task' = [task EXCEPT ![f].pc = "stat", ![f].entries = entries]
          /\ active' = active
\* lines 512-519: after the loops; a non-dry run goes on to stat the input
AfterLoop(f, entries) ==
  /\ results' = Append(results, [in |-> Rel(f), out |-> AllOutputs(Rel(f), opts)])
  /\ manifest' = (Rel(f) :> entries) @@ manifest
  /\ IF DryRun(opts)
     THEN /\ task' = [task EXCEPT ![f].pc = "done", ![f].entries = entries]
          /\ active' = active \ {f}
     ELSE /\ task' = [task EXCEPT ![f].pc = "stat", ![f].entries = entries]
          /\ active' = active

\* the next (size, format) pair of lines 451-455, or the end of the loops
NextPair(f, k, entries) ==
  IF k < NumPairs(opts)
  THEN /\ task' = [task EXCEPT ![f].pc = "mkdir", ![f].k = k + 1,
                               ![f].entries = entries]
       /\ UNCHANGED <<results, manifest, active>>
  ELSE AfterLoop(f, entries)

\* shouldSkipFile resolves (lines 396-412 and, when it says skip, 439-447);
\* statOk: its fs.stat(inputPath) resolved
Decision(f, statOk) ==
  ShouldSkipFile([ok |-> statOk, mtime |-> inMtime[f]], CacheKey(f),
                 AllOutputs(Rel(f), opts), settingsHash, Force(opts), cache,
                 outFs)

AfterCheck(f, statOk) ==
  /\ pc = "dispatch"
  /\ task[f].pc = "check"
  /\ LET d == Decision(f, statOk)
       IN IF d.skip
          THEN /\ cachedFiles' =
                    Append(cachedFiles, [file |-> Rel(f), reason |-> d.reason])
               /\ IF HasEntry(cache, CacheKey(f))
                     /\ Len(EntryOf(cache, CacheKey(f)).outputFiles) > 0
                  THEN /\ task' = [task EXCEPT ![f].pc = "recon", ![f].k = 1]
                       /\ UNCHANGED <<results, manifest, active>>
                  ELSE FinishSkip(f, <<>>)
          ELSE /\ cachedFiles' = cachedFiles
               /\ NextPair(f, 0, <<>>)
  /\ UNCHANGED <<durable, runvars, cache, skippedFiles, queue, codecCalls>>

CheckSkip(f) == AfterCheck(f, TRUE)
\* the input cannot be stat'ed inside shouldSkipFile (lines 313-315)
CheckSkipStatFails(f) == AfterCheck(f, FALSE)

\* one round of the reconstruction loop (lines 414-431): stat and metadata
\* of a recorded output succeed
Recon(f) ==
  /\ pc = "dispatch"
  /\ task[f].pc = "recon"
  /\ LET outs == EntryOf(cache, CacheKey(f)).outputFiles
         k == task[f].k
         file == Stat(outFs, outs[k])
         entries == Append(task[f].entries, ReconEntry(Rel(f), outs[k], file))
     IN /\ file.exists
        /\ IF k < Len(outs)
           THEN /\ task' = [task EXCEPT ![f].k = k + 1, ![f].entries = entries]
                /\ UNCHANGED <<results, manifest, active>>
           ELSE FinishSkip(f, entries)
  /\ UNCHANGED <<durable, runvars, cache, skippedFiles, cachedFiles, queue,
                 codecCalls>>

\* a recorded output cannot be read (lines 432-435): break
ReconFails(f) ==
  /\ pc = "dispatch"
  /\ task[f].pc = "recon"
  /\ results' = Append(results, [in |-> Rel(f), out |-> AllOutputs(Rel(f), opts)])
  /\ manifest' = (Rel(f) :> task[f].entries) @@ manifest
  /\ task' = [task EXCEPT ![f].pc = "done", ![f].broke = TRUE]
  /\ active' = active \ {f}
  /\ UNCHANGED <<durable, runvars, cache, skippedFiles, cachedFiles, queue,
                 codecCalls>>

\* fs.mkdir resolves (lines 455-461); a dry run goes on to the next pair
Mkdir(f) ==
  /\ pc = "dispatch"
  /\ task[f].pc = "mkdir"
  /\ outDirs' = outDirs \cup {Dirname(PairPath(Rel(f), opts, task[f].k))}
  /\ IF DryRun(opts)
     THEN NextPair(f, task[f].k, task[f].entries)
     ELSE /\ task' = [task EXCEPT ![f].pc = "encode"]
          /\ UNCHANGED <<results, manifest, active>>
  /\ UNCHANGED <<now, inputs, inMtime, inWidth, helper, outFs, cacheFile, manifestFile,
                 runvars, cache, skippedFiles, cachedFiles, queue, codecCalls>>

MkdirFails(f) ==
  /\ pc = "dispatch"
  /\ task[f].pc = "mkdir"
  /\ Catch(f, "mkdir")
  /\ UNCHANGED <<durable, runvars, cache, results, cachedFiles, manifest,
                 queue, codecCalls>>

\* instance.toBuffer() resolves (lines 463-494)
Encode(f) ==
  /\ pc = "dispatch"
  /\ task[f].pc = "encode"
  /\ codecCalls' = codecCalls + 1
  /\ task' = [task EXCEPT ![f].pc = "write"]
  /\ UNCHANGED <<durable, runvars, cache, aggregates, queue, active>>

\* the input cannot be read or decoded
EncodeFails(f) ==
  /\ pc = "dispatch"
  /\ task[f].pc = "encode"
  /\ codecCalls' = codecCalls + 1
  /\ Catch(f, "codec")
  /\ UNCHANGED <<durable, runvars, cache, results, cachedFiles, manifest,
                 queue>>

\* fs.writeFile and sharp(buffer).metadata() resolve (lines 495-509)
Write(f) ==
  /\ pc = "dispatch"
  /\ task[f].pc = "write"
  /\ LET k == task[f].k
         file == OutFile(now, EncodedWidth(f, opts, k), EncodedQuality(opts, k))
     IN /\ outFs' = [outFs EXCEPT ![PairPath(Rel(f), opts, k)] = file]
        /\ NextPair(f, k, Append(task[f].entries,
                                 ProcessedEntry(Rel(f), opts, k, file)))
  /\ UNCHANGED <<now, inputs, inMtime, inWidth, helper, outDirs, cacheFile, manifestFile, runvars,
                 cache, skippedFiles, cachedFiles, queue, codecCalls>>

WriteFails(f) ==
  /\ pc = "dispatch"
  /\ task[f].pc = "write"
  /\ Catch(f, "write")
  /\ UNCHANGED <<durable, runvars, cache, results, cachedFiles, manifest,
                 queue, codecCalls>>

\* an update that keeps the record the key already has
UpdateCacheKeepsOld(f) ==
  /\ pc = "dispatch"
  /\ task[f].pc = "stat"
  /\ IF cache.kind = "null"
     THEN /\ Catch(f, "TypeError")
          /\ cache' = cache
     ELSE /\ cache' = IF HasEntry(cache, CacheKey(f)) THEN cache
                      ELSE PutEntry(cache,
                             CacheEntry(f, inMtime[f], settingsHash,
                                        AllOutputs(Rel(f), opts), now))
          /\ task' = [task EXCEPT ![f].pc = "done"]
          /\ active' = active \ {f}
          /\ skippedFiles' = skippedFiles
  /\ UNCHANGED <<durable, runvars, results, cachedFiles, manifest, queue,
                 codecCalls>>
\* fs.stat(abs) resolves and the cache entry is assigned (lines 517-527);
\* an assignment to a property of null throws a TypeError
UpdateCache(f) ==
  /\ pc = "dispatch"
  /\ task[f].pc = "stat"
  /\ IF cache.kind = "null"
     THEN /\ Catch(f, "TypeError")
          /\ cache' = cache
     ELSE /\ cache' = PutEntry(cache,
                        CacheEntry(f, inMtime[f], settingsHash,
                                   AllOutputs(Rel(f), opts), now))
          /\ task' = [task EXCEPT ![f].pc = "done"]
          /\ active' = active \ {f}
          /\ skippedFiles' = skippedFiles
  /\ UNCHANGED <<durable, runvars, results, cachedFiles, manifest, queue,
                 codecCalls>>

StatFails(f) ==
  /\ pc = "dispatch"
  /\ task[f].pc = "stat"
  /\ Catch(f, "stat")
  /\ UNCHANGED <<durable, runvars, cache, results, cachedFiles, manifest,
                 queue, codecCalls>>

(* ----------------------- imgx: after Promise.all ----------------------- *)
\* a Promise.all that resolves when the first task has settled
AllSettledEarly ==
  /\ pc = "dispatch"
  /\ \E i \in 1..Len(files) : task[files[i]].pc = "done"
  /\ pc' = IF DryRun(opts) THEN "done" ELSE "save"
  /\ UNCHANGED <<durable, opts, files, cache, settingsHash, aggregates, queue,
                 active, task, runs, codecCalls, prev, dirty>>
\* a Promise.all that resolves only when no task has failed
AllSettledNoFailures ==
  /\ pc = "dispatch"
  /\ \A i \in 1..Len(files) :
       task[files[i]].pc = "done" /\ task[files[i]].thrown = "none"
  /\ pc' = IF DryRun(opts) THEN "done" ELSE "save"
  /\ UNCHANGED <<durable, opts, files, cache, settingsHash, aggregates, queue,
                 active, task, runs, codecCalls, prev, dirty>>
\* Promise.all resolves (lines 570-575) once every task has settled
AllSettled ==
  /\ pc = "dispatch"
  /\ \A i \in 1..Len(files) : task[files[i]].pc = "done"
  /\ pc' = IF DryRun(opts) THEN "done" ELSE "save"
  /\ UNCHANGED <<durable, opts, files, cache, settingsHash, aggregates, queue,
                 active, task, runs, codecCalls, prev, dirty>>

\* saveCache resolves (lines 574-578)
SaveCacheDone ==
  /\ pc = "save"
  /\ cacheFile' = SaveCache(cache)
  /\ pc' = IF DOMAIN manifest # {} THEN "manifest" ELSE "done"
  /\ UNCHANGED <<now, inputs, inMtime, inWidth, helper, outDirs, outFs, manifestFile, opts, files,
                 cache, settingsHash, aggregates, queue, active, task, runs,
                 codecCalls, prev, dirty>>

\* a rejection of saveCache that is swallowed: the call goes on
SaveCacheFailsSwallowed ==
  /\ pc = "save"
  /\ cacheFile' \in {cacheFile, GarbageFile}
  /\ pc' = IF DOMAIN manifest # {} THEN "manifest" ELSE "done"
  /\ UNCHANGED <<now, inputs, inMtime, inWidth, helper, outDirs, outFs, manifestFile, opts, files,
                 cache, settingsHash, aggregates, queue, active, task, runs,
                 codecCalls, prev, dirty>>
\* saveCache rejects: imgx rejects; the file is as it was, or cut short
SaveCacheFails ==
  /\ pc = "save"
  /\ cacheFile' \in {cacheFile, GarbageFile}
  /\ pc' = "failed"
  /\ UNCHANGED <<now, inputs, inMtime, inWidth, helper, outDirs, outFs, manifestFile, opts, files,
                 cache, settingsHash, aggregates, queue, active, task, runs,
                 codecCalls, prev, dirty>>

\* the process dies while fs.writeFile of saveCache is under way: writeFile
\* truncates the file and writes in place, so the file is as it was, cut
\* short, or complete
CrashInSave ==
  /\ pc = "save"
  /\ cacheFile' \in {cacheFile, GarbageFile, SaveCache(cache)}
  /\ pc' = "crashed"
  /\ UNCHANGED <<now, inputs, inMtime, inWidth, helper, outDirs, outFs, manifestFile,
                 opts, files, cache, settingsHash, aggregates, queue, active,
                 task, runs, codecCalls, prev, dirty>>

\* the manifest file is written (lines 578-604) and imgx returns
WriteManifest ==
  /\ pc = "manifest"
  /\ manifestFile' = [kind |-> "object", map |-> manifest]
  /\ pc' = "done"
  /\ UNCHANGED <<now, inputs, inMtime, inWidth, helper, outDirs, outFs, cacheFile, opts, files, cache,
                 settingsHash, aggregates, queue, active, task, runs,
                 codecCalls, prev, dirty>>

WriteManifestFails ==
  /\ pc = "manifest"
  /\ pc' = "failed"
  /\ UNCHANGED <<durable, opts, files, cache, settingsHash, aggregates, queue,
                 active, task, runs, codecCalls, prev, dirty>>

(* ------------------- the environment, between calls -------------------- *)
Tick ==
  /\ Idle
  /\ now < MaxTime
  /\ now' = now + 1
  /\ UNCHANGED <<inputs, inMtime, inWidth, helper, outDirs, outFs, cacheFile, manifestFile, pc, opts,
                 files, cache, settingsHash, aggregates, queue, active, task,
                 runs, codecCalls, prev, dirty>>

\* an input file is modified
TouchInput(f) ==
  /\ Idle
  /\ inMtime[f] # now
  /\ inMtime' = [inMtime EXCEPT ![f] = now]
  /\ dirty' = TRUE
  /\ UNCHANGED <<now, inputs, inWidth, helper, outDirs, outFs, cacheFile, manifestFile, pc, opts,
                 files, cache, settingsHash, aggregates, queue, active, task,
                 runs, codecCalls, prev>>

(* ------------------------- the specifications ------------------------- *)
\* what a complete earlier call with options o left for the inputs in
\* `done`: their outputs, written at time t, and their cache entries
LeftOutputs(done, o, t) ==
  [p \in AllPaths |->
     IF \E f \in done : \E k \in 1..NumPairs(o) : p = PairPath(Rel(f), o, k)
     THEN LET f == CHOOSE g \in done :
                     \E k \in 1..NumPairs(o) : p = PairPath(Rel(g), o, k)
              k == CHOOSE j \in 1..NumPairs(o) : p = PairPath(Rel(f), o, j)
          IN OutFile(t, Min(PairSize(o, k), inWidth[f]), EncodedQuality(o, k))
     ELSE NoFile]
LeftCache(done, o) ==
  [kind |-> "object",
   recs |-> {CacheEntry(f, 0, GenerateSettingsHash(o),
                        AllOutputs(Rel(f), o), 1) : f \in done}]

\* Spec: one call of imgx.  Every input is older than the clock; some inputs
\* have the outputs and the cache entry of an earlier call with quality 78.
Init ==
  /\ now = 1
  /\ inputs = GlobFiles
  /\ inMtime = [f \in AllFiles |-> 0]
  /\ helper = NoHelper
  /\ inWidth = [f \in AllFiles |-> 2000]
  /\ manifestFile = [kind |-> "missing", map |-> <<>>]
  /\ \E done \in SUBSET GlobFiles :
       /\ outFs = LeftOutputs(done, OptionsWith(78, FALSE, FALSE, 1), 1)
       /\ outDirs = {BaseName(Rel(f)) : f \in done}
       /\ cacheFile = IF done = {} THEN MissingFile
                      ELSE LeftCache(done, OptionsWith(78, FALSE, FALSE, 1))
  /\ \E o \in RunOptions : Called(o)

\* SpecAnyDisk: one call of imgx over one input whose outputs are, each on
\* its own, missing or older than, as old as, or newer than the input, with
\* any cache file: missing, damaged, null, empty, or holding the entry that
\* an earlier call with other options left.
OneInput == <<1, "jpg">>
EarlierOptions ==
  {OptionsWith(78, FALSE, FALSE, 1), OptionsWith(90, FALSE, FALSE, 1),
   [OptionsWith(78, FALSE, FALSE, 1) EXCEPT !.sizes = Some(<<640>>)]}
InitAnyDisk ==
  /\ now = MaxTime
  /\ inputs = {OneInput}
  /\ inMtime = [f \in AllFiles |-> 1]
  /\ helper = NoHelper
  /\ inWidth = [f \in AllFiles |-> 2000]
  /\ manifestFile = [kind |-> "missing", map |-> <<>>]
  /\ \E present \in SUBSET {1, 2} : \E t \in [present -> 0..MaxTime] :
       /\ outDirs \in IF present = {} THEN {{}, {BaseName(Rel(OneInput))}}
                       ELSE {{BaseName(Rel(OneInput))}}
       /\ outFs = [p \in AllPaths |->
                  IF \E k \in present :
                       p = PairPath(OneInput, BaseOptions, k)
                  THEN LET k == CHOOSE j \in present :
                                  p = PairPath(OneInput, BaseOptions, j)
                       IN OutFile(t[k], PairSize(BaseOptions, k), DefaultQuality)
                  ELSE NoFile]
  /\ \/ cacheFile \in {MissingFile, GarbageFile, NullCache, EmptyCache}
     \/ \E e \in EarlierOptions : cacheFile = LeftCache({OneInput}, e)
  /\ \E q \in {78, 90}, fo \in BOOLEAN, dr \in BOOLEAN :
       Called(OptionsWith(q, fo, dr, 1))

\* SpecRerun: up to MaxRuns calls of imgx over two inputs on an output root
\* that starts empty, no await rejecting; between two calls the clock may
\* advance and an input may be modified.
RerunInputs == {<<1, "jpg">>, <<2, "jpg">>}
InitRerun ==
  /\ now = 1
  /\ inputs = RerunInputs
  /\ inMtime = [f \in AllFiles |-> 0]
  /\ helper = NoHelper
  /\ inWidth = [f \in AllFiles |-> 2000]
  /\ outFs = [p \in AllPaths |-> NoFile]
  /\ outDirs = {}
  /\ cacheFile = MissingFile
  /\ manifestFile = [kind |-> "missing", map |-> <<>>]
  /\ NotCalled

\* the steps of one task that resolve
TaskStep(f) ==
  \/ CheckSkip(f)
  \/ Recon(f)
  \/ ReconFails(f)
  \/ Mkdir(f)
  \/ Encode(f)
  \/ Write(f)
  \/ UpdateCache(f)

\* the steps of one task where an await rejects
TaskFault(f) ==
  \/ CheckSkipStatFails(f)
  \/ MkdirFails(f)
  \/ EncodeFails(f)
  \/ WriteFails(f)
  \/ StatFails(f)

\* one call of imgx, every await free to reject
Step ==
  \/ Glob
  \/ Load
  \/ StartTask
  \/ \E f \in AllFiles : TaskStep(f)
  \/ \E f \in AllFiles : TaskFault(f)
  \/ AllSettled
  \/ SaveCacheDone
  \/ SaveCacheFails
  \/ WriteManifest
  \/ WriteManifestFails

\* one call of imgx in a process that may die while it saves the cache
Next ==
  \/ Step
  \/ CrashInSave

Spec == Init /\ [][Next]_vars

SpecAnyDisk == InitAnyDisk /\ [][Next]_vars

\* the calls made in SpecRerun: one task at a time
RerunOptions ==
  {OptionsWith(q, fo, dr, 1) : q \in {78, 90}, fo \in BOOLEAN, dr \in BOOLEAN}

NextRerun ==
  \/ \E o \in RerunOptions : StartRun(o)
  \/ Glob
  \/ Load
  \/ StartTask
  \/ \E f \in AllFiles : TaskStep(f)
  \/ AllSettled
  \/ SaveCacheDone
  \/ WriteManifest
  \/ Tick
  \/ \E f \in RerunInputs : TouchInput(f)

SpecRerun == InitRerun /\ [][NextRerun]_vars

(* ============================== claims ================================= *)
\* tasks started and not yet settled, read off the tasks' positions
InFlight ==
  {f \in AllFiles :
     task[f].pc \in {"check", "recon", "mkdir", "encode", "write", "stat"}}
\* tasks inside instance.toBuffer()
InCodec == {f \in AllFiles : task[f].pc = "encode"}
Enumerated == {files[i] : i \in 1..Len(files)}
QueuedTimes(f) == Cardinality({j \in 1..Len(queue) : queue[j] = f})
\* inputs whose task threw
Thrown == {f \in AllFiles : task[f].thrown # "none"}
\* inputs reported in the cached list
Skipped(f) == \E i \in 1..Len(cachedFiles) : cachedFiles[i].file = Rel(f)
ResultsOf(f) == {i \in 1..Len(results) : results[i].in = Rel(f)}

\* C1: with concurrency limit N >= 1, at every moment at most N per-input
\* tasks are in flight, so at most N codec invocations run at once; every
\* enumerated input has exactly one task: it waits in the queue once, or it
\* was started once, and no other input has a task.
C1_ConcurrencyBound ==
  pc = "dispatch" =>
    /\ Cardinality(InFlight) <= opts.concurrency[1]
    /\ Cardinality(InCodec) <= opts.concurrency[1]
    /\ \A f \in AllFiles :
         /\ f \notin Enumerated => task[f].pc = "none" /\ QueuedTimes(f) = 0
         /\ f \in Enumerated =>
              \/ task[f].pc = "queued" /\ QueuedTimes(f) = 1
              \/ f \in InFlight /\ QueuedTimes(f) = 0
              \/ task[f].pc = "done" /\ QueuedTimes(f) = 0

\* the pool is full, one task is inside the codec and another input waits
C1_Witness ==
  /\ pc = "dispatch"
  /\ opts.concurrency[1] < Len(files)
  /\ Cardinality(InFlight) = opts.concurrency[1]
  /\ InCodec # {}
  /\ queue # <<>>

\* input f went through the process branch completely: one result with all
\* its output paths, every output written by this call, one manifest entry
\* per pair, and its cache entry in memory and in the saved cache file
FullyProcessed(f) ==
  /\ Cardinality(ResultsOf(f)) = 1
  /\ \A i \in ResultsOf(f) : results[i].out = AllOutputs(Rel(f), opts)
  /\ \A k \in 1..NumPairs(opts) :
       outFs[PairPath(Rel(f), opts, k)] =
         OutFile(now, EncodedWidth(f, opts, k), EncodedQuality(opts, k))
  /\ Rel(f) \in DOMAIN manifest
  /\ manifest[Rel(f)] =
       [k \in 1..NumPairs(opts) |->
          ProcessedEntry(Rel(f), opts, k,
                         outFs[PairPath(Rel(f), opts, k)])]
  /\ CacheEntry(f, inMtime[f], settingsHash, AllOutputs(Rel(f), opts), now)
       \in cache.recs
  /\ cacheFile.kind = "object"
  /\ CacheEntry(f, inMtime[f], settingsHash, AllOutputs(Rel(f), opts), now)
       \in cacheFile.recs

\* C2: when exactly one input k fails during processing (mkdir, codec/read
\* or write error) in a call that writes, and no other input is skipped, the
\* call ends with every other input fully processed (outputs, manifest
\* entries, cache entry) and the error list is exactly one item, for k.
C2_PartialFailureIsolation ==
  \A k \in AllFiles :
    ( /\ pc = "done"
      /\ ~DryRun(opts)
      /\ Thrown = {k}
      /\ task[k].thrown \in {"mkdir", "codec", "write"}
      /\ \A f \in Enumerated \ {k} : ~Skipped(f) )
    =>
      /\ skippedFiles = <<[file |-> Rel(k), reason |-> task[k].thrown]>>
      /\ Len(results) = Len(files) - 1
      /\ ResultsOf(k) = {}
      /\ \A f \in Enumerated \ {k} : FullyProcessed(f)

\* the codec fails on one input after the other one was started, and the
\* other one ends fully processed
C2_Witness ==
  /\ pc = "done"
  /\ ~DryRun(opts)
  /\ Len(files) >= 2
  /\ \E k \in Enumerated :
       /\ Thrown = {k}
       /\ task[k].thrown = "codec"
       /\ \A f \in Enumerated \ {k} : ~Skipped(f) /\ FullyProcessed(f)

\* the expected output paths of f in this call, and the files there
ExpectedPaths(f) == {PairPath(Rel(f), opts, k) : k \in 1..NumPairs(opts)}
AllExpectedExist(f) == \A p \in ExpectedPaths(f) : outFs[p].exists
NewestOutput(f) ==
  CHOOSE m \in 0..MaxTime :
    /\ \A p \in ExpectedPaths(f) : outFs[p].exists => outFs[p].mtime <= m
    /\ \/ m = 0
       \/ \E p \in ExpectedPaths(f) : outFs[p].exists /\ outFs[p].mtime = m
\* the cache holds a record for f with the fingerprint of this call
MatchingRecord(f) ==
  /\ cache.kind = "object"
  /\ HasEntry(cache, CacheKey(f))
  /\ EntryOf(cache, CacheKey(f)).settingsHash = settingsHash
\* the task of f has taken its skip decision
Decided(f) == task[f].pc \notin {"none", "queued", "check"}
\* cache contents and fingerprints the decision is tried against
SomeCaches(f) ==
  {cache, EmptyCache, NullCache}
    \cup {LeftCache({f}, e) : e \in EarlierOptions}
SomeHashes == {settingsHash} \cup {GenerateSettingsHash(e) : e \in EarlierOptions}
\* shouldSkipFile says skip for f under some of these caches and fingerprints
SkipsUnderSome(f) ==
  \E c \in SomeCaches(f), h \in SomeHashes, statOk \in BOOLEAN :
    ShouldSkipFile([ok |-> statOk, mtime |-> inMtime[f]], CacheKey(f),
                   AllOutputs(Rel(f), opts), h, Force(opts), c, outFs).skip

\* C3: an input is reported as skipped only if the cache holds a record for
\* it whose settings fingerprint equals the fingerprint of the current run;
\* so after quality changes, with the output paths unchanged, a run without
\* force skips no input.
C3_SkipOnlyIfFingerprintEqual ==
  \A f \in AllFiles : Skipped(f) => MatchingRecord(f)

\* C4: an input is skipped only if every one of its expected outputs exists
\* and every one of them is strictly newer than the input.
C4_SkipOnlyIfEveryOutputNewer ==
  \A f \in AllFiles :
    Skipped(f) =>
      \A p \in ExpectedPaths(f) :
        outFs[p].exists /\ outFs[p].mtime > inMtime[f]

\* C5: if an expected output of an input is missing when the skip decision
\* is taken, the decision is "do not skip", for every cache content and every
\* fingerprint; an input reported as skipped has all its expected outputs.
C5_MissingOutputNeverSkipped ==
  \A f \in AllFiles :
    /\ (task[f].pc = "check" /\ ~AllExpectedExist(f)) => ~SkipsUnderSome(f)
    /\ (Decided(f) /\ ~AllExpectedExist(f)) => ~Skipped(f)

\* one output is missing, the other is newer than the input, the cache holds
\* the matching record and force is off: the task went on to process
C5_Witness ==
  \E f \in AllFiles :
    /\ task[f].pc = "mkdir" /\ task[f].k = 1
    /\ ~Force(opts)
    /\ MatchingRecord(f)
    /\ ~AllExpectedExist(f)
    /\ NewestOutput(f) > inMtime[f]
    /\ ~Skipped(f)

\* C6: if all expected outputs exist and the newest of them is not strictly
\* newer than the input (equal or older), the decision is "do not skip",
\* whatever the cache holds.
C6_StaleOutputsNeverSkipped ==
  \A f \in AllFiles :
    /\ (task[f].pc = "check" /\ AllExpectedExist(f)
          /\ NewestOutput(f) <= inMtime[f]) => ~SkipsUnderSome(f)
    /\ (task[f].pc \in {"mkdir", "recon"} /\ task[f].k = 1
          /\ AllExpectedExist(f) /\ NewestOutput(f) <= inMtime[f])
       => ~Skipped(f)

\* all outputs exist, the newest is exactly as old as the input, the cache
\* holds the matching record and force is off: the task went on to process
C6_Witness ==
  \E f \in AllFiles :
    /\ task[f].pc = "mkdir" /\ task[f].k = 1
    /\ ~Force(opts)
    /\ MatchingRecord(f)
    /\ AllExpectedExist(f)
    /\ NewestOutput(f) = inMtime[f]
    /\ ~Skipped(f)

\* C7: with force set the decision is "do not skip" for every input, every
\* state of the outputs and every cache, so no task enters the skip branch,
\* the cached list stays empty, and at the end every enumerated input is in
\* the results or in the error list.
C7_ForceNeverSkips ==
  (pc \in {"dispatch", "save", "manifest", "done", "failed"} /\ Force(opts)) =>
    /\ cachedFiles = <<>>
    /\ \A f \in AllFiles :
         /\ task[f].pc = "check" => ~SkipsUnderSome(f)
         /\ task[f].pc # "recon"
         /\ (task[f].pc = "done") =>
              \/ ResultsOf(f) # {}
              \/ \E i \in 1..Len(skippedFiles) : skippedFiles[i].file = Rel(f)

\* force is set while all outputs are newer than the input and the cache
\* holds the matching record; the input is encoded all the same
C7_Witness ==
  \E f \in AllFiles :
    /\ Force(opts)
    /\ task[f].pc = "encode"
    /\ MatchingRecord(f)
    /\ AllExpectedExist(f)
    /\ \A p \in ExpectedPaths(f) : outFs[p].mtime > inMtime[f]

\* C8: without force, when every expected output exists and the newest one
\* is strictly newer than the input, the decision is always "skip"; its
\* reason is "cached (up to date)" exactly when the cache holds a record of
\* the input with the current fingerprint, else "output newer than input".
C8_FreshOutputsAlwaysSkipped ==
  \A f \in AllFiles :
    (/\ task[f].pc = "check"
     /\ ~Force(opts)
     /\ AllExpectedExist(f)
     /\ NewestOutput(f) > inMtime[f])
    =>
      /\ Decision(f, TRUE).skip
      /\ Decision(f, TRUE).reason =
           IF HasEntry(cache, CacheKey(f))
              /\ EntryOf(cache, CacheKey(f)).settingsHash = settingsHash
           THEN "cached (up to date)" ELSE "output newer than input"

\* this call follows, with the same options and with no file changed in
\* between or since, a call that processed every input
SecondRunEnded ==
  /\ pc = "done"
  /\ prev.valid
  /\ prev.allProcessed
  /\ opts = prev.opts
  /\ ~dirty
\* every input is in the cached list once, nothing was encoded, and the
\* output files are those the previous call left
AllCacheSkipped ==
  /\ Len(cachedFiles) = Len(files)
  /\ \A f \in Enumerated : Skipped(f)
  /\ skippedFiles = <<>>
  /\ codecCalls = 0
  /\ outFs = prev.outFs

\* C9 as stated: after a run that processed every input, a second run with
\* the same inputs and configuration and no file change in between marks
\* every input as cache-skipped, calls the codec zero times and leaves
\* every output file unchanged.
C9_IdempotenceAsStated == SecondRunEnded => AllCacheSkipped

\* C9: the same, for a configuration without force and inputs that are
\* strictly older than the outputs the first run wrote; every input is then
\* skipped with reason "cached (up to date)".
C9_Idempotence ==
  (/\ SecondRunEnded
   /\ ~Force(opts)
   /\ \A f \in Enumerated : \A p \in ExpectedPaths(f) :
        prev.outFs[p].exists /\ prev.outFs[p].mtime > inMtime[f])
  =>
    /\ AllCacheSkipped
    /\ \A i \in 1..Len(cachedFiles) :
         cachedFiles[i].reason = "cached (up to date)"

\* the second of two equal calls without force over two inputs has ended
\* with both inputs skipped from the cache
C9_Witness ==
  /\ SecondRunEnded
  /\ runs = 2
  /\ ~Force(opts)
  /\ Len(files) = 2
  /\ \A f \in Enumerated :
       \E i \in 1..Len(cachedFiles) :
         cachedFiles[i] = [file |-> Rel(f), reason |-> "cached (up to date)"]
  /\ codecCalls = 0

\* C10: at the end of a run that writes, every input that was processed
\* without error, or skipped with its outputs readable, has in the manifest
\* under its key exactly one entry per requested (size, format) pair, in
\* order; also when it was skipped with no cache record or with a record
\* written under other settings.
C10_ManifestCompleteness ==
  (pc = "done" /\ ~DryRun(opts)) =>
    \A f \in Enumerated :
      (ResultsOf(f) # {} /\ task[f].thrown = "none" /\ ~task[f].broke) =>
        /\ Rel(f) \in DOMAIN manifest
        /\ Len(manifest[Rel(f)]) = NumPairs(opts)
        /\ \A k \in 1..NumPairs(opts) :
             manifest[Rel(f)][k].src = PairPath(Rel(f), opts, k)

(* ------------------ one input, two sizes, two formats ------------------ *)
\* SpecPairs: one call of imgx over one input with two sizes and two
\* formats, every await free to reject; the output root is empty or holds
\* what an earlier call with the same sizes and formats left.
PairOptions ==
  {[OptionsWith(q, fo, dr, 1) EXCEPT !.formats = Some(fmts)] :
     q \in {78, 90}, fo \in BOOLEAN, dr \in BOOLEAN,
     fmts \in {<<"webp", "avif">>, <<"avif", "webp">>}}
InitPairs ==
  /\ now = MaxTime
  /\ inputs = {OneInput}
  /\ inMtime = [f \in AllFiles |-> 0]
  /\ helper = NoHelper
  /\ inWidth = [f \in AllFiles |-> 2000]
  /\ manifestFile = [kind |-> "missing", map |-> <<>>]
  /\ \E o \in PairOptions :
       /\ Called(o)
       /\ \/ /\ outFs = [p \in AllPaths |-> NoFile]
             /\ outDirs = {}
             /\ cacheFile = MissingFile
          \/ /\ outFs = LeftOutputs({OneInput}, [o EXCEPT !.quality = Some(78)], 1)
             /\ outDirs = {BaseName(Rel(OneInput))}
             /\ cacheFile = LeftCache({OneInput}, [o EXCEPT !.quality = Some(78)])

SpecPairs == InitPairs /\ [][Next]_vars

\* the place of a size and of a format in the options' lists
SizeIndex(o, w) == CHOOSE i \in 1..Len(SizesToProcess(o)) : SizesToProcess(o)[i] = w
FormatIndex(o, fmt) == CHOOSE i \in 1..Len(Formats(o)) : Formats(o)[i] = fmt
\* a list of manifest entries runs through the sizes in their order and,
\* within one size, through the formats in their order, without repeats
InDeclaredOrder(o, entries) ==
  \A i, j \in 1..Len(entries) :
    i < j =>
      \/ SizeIndex(o, entries[i].width) < SizeIndex(o, entries[j].width)
      \/ /\ entries[i].width = entries[j].width
         /\ FormatIndex(o, entries[i].format) < FormatIndex(o, entries[j].format)
\* pair j of input f has been written by this call
WrittenNow(f, j) ==
  /\ outFs[PairPath(Rel(f), opts, j)].exists
  /\ outFs[PairPath(Rel(f), opts, j)].mtime = now

\* C11: within the task of one input the (size, format) pairs are processed
\* one after another in declared order, sizes outer and formats inner: while
\* pair k is in progress every earlier pair has been written and has its
\* manifest entry and no later pair has been touched; the manifest entries
\* of the input are in that order.
C11_PairsInDeclaredOrder ==
  \A f \in AllFiles :
    /\ (task[f].pc \in {"mkdir", "encode", "write"} /\ ~DryRun(opts)) =>
         /\ task[f].k \in 1..NumPairs(opts)
         /\ Len(task[f].entries) = task[f].k - 1
         /\ \A j \in 1..NumPairs(opts) : WrittenNow(f, j) <=> j < task[f].k
         /\ \A j \in 1..(task[f].k - 1) :
              /\ task[f].entries[j].src = PairPath(Rel(f), opts, j)
              /\ task[f].entries[j].width =
                   SizesToProcess(opts)[((j - 1) \div Len(Formats(opts))) + 1]
              /\ task[f].entries[j].format =
                   Formats(opts)[((j - 1) % Len(Formats(opts))) + 1]
    /\ InDeclaredOrder(opts, task[f].entries)
    /\ Rel(f) \in DOMAIN manifest =>
         /\ InDeclaredOrder(opts, manifest[Rel(f)])
         /\ (~Skipped(f) /\ ~DryRun(opts)) =>
              Len(manifest[Rel(f)]) = NumPairs(opts)

\* the third of four pairs is being encoded: both formats of the first size
\* are written and in the entries, the second size is untouched
C11_Witness ==
  \E f \in AllFiles :
    /\ Formats(opts) = <<"avif", "webp">>
    /\ task[f].pc = "encode" /\ task[f].k = 3
    /\ Len(task[f].entries) = 2
    /\ task[f].entries[1].width = 640 /\ task[f].entries[1].format = "avif"
    /\ task[f].entries[2].width = 640 /\ task[f].entries[2].format = "webp"
    /\ ~WrittenNow(f, 3) /\ ~WrittenNow(f, 4)

\* C12: a dry run takes the skip decision and computes the output paths of
\* every input, but never calls the codec and leaves the durable state under
\* the output root as it was: no output file, no directory, no cache file
\* and no manifest file is created or changed by any of its steps.
C12_DryRunChangesNothing ==
  [][DryRun(opts) =>
       /\ codecCalls' = codecCalls
       /\ UNCHANGED <<outFs, outDirs, cacheFile, manifestFile>>]_vars

\* the cache file holds no mapping of records: it is missing, cannot be
\* parsed, or holds the JSON value null
NoUsableCacheFile == cacheFile.kind \in {"missing", "garbage", "null"}
\* no filesystem or codec call of the task of f has failed
NoIoFailure(f) == task[f].thrown \notin {"mkdir", "codec", "write", "stat"}

\* C13: when the cache file is missing, unparseable or not a mapping (the
\* JSON value null), loading yields the empty cache and the run behaves as a
\* cold start: every skip decision is the one taken with an empty cache,
\* and every input that is processed gets a cache record.
C13_LoadYieldsEmptyCache ==
  (pc = "dispatch" /\ NoUsableCacheFile) =>
    /\ cache.kind = "object"
    /\ \A f \in AllFiles :
         /\ task[f].pc = "check" =>
              \A statOk \in BOOLEAN :
                Decision(f, statOk) =
                  ShouldSkipFile([ok |-> statOk, mtime |-> inMtime[f]],
                                 CacheKey(f), AllOutputs(Rel(f), opts),
                                 settingsHash, Force(opts), EmptyCache, outFs)
         /\ (/\ task[f].pc = "done" /\ ~DryRun(opts)
             /\ ResultsOf(f) # {} /\ ~Skipped(f) /\ NoIoFailure(f))
            => HasEntry(cache, CacheKey(f))

\* C14: saving the cache is atomic with respect to a crash: when the process
\* dies during the save, the cache file holds the complete previous content
\* or the complete new content, never a truncated document.
C14_SaveAtomicUnderCrash ==
  [][pc' = "crashed" => cacheFile' \in {cacheFile, SaveCache(cache)}]_vars

\* the manifest field of the result (line 603)
ReturnedManifest == IF DOMAIN manifest # {} THEN Some(manifest) ELSE Undef
\* a manifest with at least one entry
HasSomeEntry(m) == \E r \in DOMAIN m : m[r] # <<>>

\* C15: a manifest file is written, and a manifest is returned, only if at
\* least one input produced at least one manifest entry.
C15_ManifestOnlyWithEntries ==
  /\ (pc = "done" /\ IsSet(ReturnedManifest)) => HasSomeEntry(manifest)
  /\ manifestFile.kind = "object" => HasSomeEntry(manifestFile.map)

(* ----------------------------- termination ----------------------------- *)
\* SpecLive: one call of imgx in which every codec and filesystem call
\* returns or throws and the process does not die.  The first input may
\* have the outputs and the cache entry of an earlier call.  The event loop
\* runs the continuation of every settled promise, so a step that can be
\* taken is taken at last.
LiveOptions ==
  {OptionsWith(DefaultQuality, FALSE, dr, c) : dr \in BOOLEAN, c \in 1..NumFiles}
InitLive ==
  /\ now = 1
  /\ inputs = GlobFiles
  /\ inMtime = [f \in AllFiles |-> 0]
  /\ helper = NoHelper
  /\ inWidth = [f \in AllFiles |-> 2000]
  /\ manifestFile = [kind |-> "missing", map |-> <<>>]
  /\ \E done \in {{}, {OneInput}} :
       /\ outFs = LeftOutputs(done, OptionsWith(DefaultQuality, FALSE, FALSE, 1), 1)
       /\ outDirs = {BaseName(Rel(f)) : f \in done}
       /\ cacheFile = IF done = {} THEN MissingFile
                      ELSE LeftCache(done, OptionsWith(DefaultQuality, FALSE, FALSE, 1))
  /\ \E o \in LiveOptions : Called(o)

SpecLive == InitLive /\ [][Step]_vars /\ WF_vars(Step)

Rank(p) ==
  CASE p = "glob" -> 1
    [] p = "load" -> 2
    [] p = "dispatch" -> 3
    [] p = "save" -> 4
    [] p = "manifest" -> 5
    [] OTHER -> 6
\* every task has settled and none is queued or running
AllTasksSettled ==
  /\ queue = <<>>
  /\ active = {}
  /\ \A f \in AllFiles : task[f].pc \in {"none", "done"}
  /\ \A i \in 1..Len(files) : task[files[i]].pc = "done"

\* C17: the steps of a call occur in the order enumerate, load cache,
\* dispatch, persist, done.  No task exists before the cache is loaded, the
\* cache is loaded in one step that is never repeated, and the cache file
\* and the manifest file are each written in one step that is never
\* repeated and is taken only when every task has settled.
C17_StepOrder ==
  /\ [](/\ pc \in {"glob", "load"} =>
             active = {} /\ \A f \in AllFiles : task[f].pc = "none"
        /\ pc \in {"save", "manifest"} => AllTasksSettled)
  /\ [][/\ Rank(pc') >= Rank(pc)
        /\ pc \in {"load", "save", "manifest"} => Rank(pc') > Rank(pc)
        /\ cacheFile' # cacheFile => pc = "save" /\ AllTasksSettled
        /\ manifestFile' # manifestFile => pc = "manifest" /\ AllTasksSettled
        /\ pc' = "dispatch" /\ pc # "dispatch" =>
             pc = "load" /\ cache' = LoadCache(cacheFile)]_vars

\* a call over two inputs has ended with the cache file and the manifest
\* file written
C17_Witness ==
  /\ pc = "done"
  /\ Len(files) = 2
  /\ AllTasksSettled
  /\ Thrown = {}
  /\ cacheFile = SaveCache(cache)
  /\ \A f \in Enumerated : HasEntry(cacheFile, CacheKey(f))
  /\ manifestFile = [kind |-> "object", map |-> manifest]

\* the records the cache holds under the key of f
RecordsOf(c, f) == {r \in c.recs : r.key = CacheKey(f)}
\* the record a successful processing of f by this call leaves
NewRecord(f) ==
  [key |-> CacheKey(f), inputPath |-> f, inputMtime |-> inMtime[f],
   settingsHash |-> settingsHash,
   outputFiles |-> [k \in 1..NumPairs(opts) |-> PairPath(Rel(f), opts, k)],
   timestamp |-> now]
\* the task of f went through the process branch and its cache update
ProcessedAndRecorded(f) ==
  /\ task[f].pc = "done"
  /\ task[f].thrown = "none"
  /\ ResultsOf(f) # {}
  /\ ~Skipped(f)

\* C18: in a run that writes, once an input has been processed the cache
\* holds under its key exactly one record, a whole new one: the fingerprint
\* of this run, the expected output paths of this run in order, the
\* input's current modification time; nothing of the previous record of the
\* key is left.  After the run the cache file holds that record.
C18_RecordReplaced ==
  \A f \in AllFiles :
    (~DryRun(opts) /\ ProcessedAndRecorded(f)) =>
      /\ RecordsOf(cache, f) = {NewRecord(f)}
      /\ pc = "done" => RecordsOf(cacheFile, f) = {NewRecord(f)}

\* the input has been processed and recorded while the cache file still
\* holds its record of an earlier call with one size and an older input
C18_Witness ==
  \E f \in AllFiles :
    /\ pc = "save"
    /\ ProcessedAndRecorded(f)
    /\ HasEntry(cacheFile, CacheKey(f))
    /\ Len(EntryOf(cacheFile, CacheKey(f)).outputFiles) = 1
    /\ EntryOf(cacheFile, CacheKey(f)).inputMtime # inMtime[f]
    /\ EntryOf(cacheFile, CacheKey(f)).settingsHash # settingsHash
    /\ EntryOf(cache, CacheKey(f)) = NewRecord(f)

(* --------------------------- the options ------------------------------- *)
\* the fields that generateSettingsHash reads, but for width and height
\* which no call sets, and the other fields of the options
RelevantFields ==
  {"quality", "effort", "formats", "sizes", "suffix", "stripMetadata",
   "withoutEnlargement"}
\* the values a call may pass for a field: nothing, the default, another
FieldValues(fld) ==
  CASE fld = "quality" -> {Undef, Some(DefaultQuality), Some(90)}
    [] fld = "effort" -> {Undef, Some(DefaultEffort), Some(4)}
    [] fld = "formats" -> {Undef, Some(<<"webp">>), Some(<<"webp", "avif">>)}
    [] fld = "sizes" -> {Undef, Some(<<DefaultWidth>>), Some(<<640, 1000>>)}
    [] fld = "suffix" -> {Undef, Some(SuffixW), Some(SuffixPx)}
    [] fld = "stripMetadata" -> {Undef, Some(TRUE), Some(FALSE)}
    [] fld = "withoutEnlargement" -> {Undef, Some(TRUE), Some(FALSE)}
\* o with one relevant field set to another value
OneFieldChanged(o) ==
  UNION {{[o EXCEPT ![fld] = v] : v \in FieldValues(fld) \ {o[fld]}} :
           fld \in RelevantFields}
\* o with the fields that influence neither the digest nor the files and
\* paths a call looks at set to any values
SameButScheduling(o) ==
  {[o EXCEPT !.concurrency = c, !.verbose = v, !.quiet = q, !.dryRun = d,
             !.sharpCacheFiles = sc] :
     c \in {Some(1), Some(2)}, v \in {Undef, Some(TRUE)},
     q \in {Undef, Some(TRUE)}, d \in {Undef, Some(TRUE), Some(FALSE)},
     sc \in {Undef, Some(50)}}
\* o with every field the digest does not read set to any values
SameButIrrelevant(o) ==
  UNION {{[o2 EXCEPT !.force = fo, !.pattern = pt, !.input = i, !.output = ou] :
            fo \in {Undef, Some(TRUE), Some(FALSE)},
            pt \in {Undef, Some(<<"**/*.jpg">>)},
            i \in {Some("src"), Some("img")},
            ou \in {Some("dist"), Some("out")}} :
           o2 \in SameButScheduling(o)}

\* SpecOptions: one call of imgx over one input, no await rejecting, with
\* options that differ from two sizes at quality 78 in at most one relevant
\* field; the output root is empty or holds what an earlier call with the
\* same options left.
CallOptions ==
  UNION {{o} \cup OneFieldChanged(o) :
           o \in {OptionsWith(DefaultQuality, fo, dr, 1) :
                    fo \in BOOLEAN, dr \in BOOLEAN}}
InitOptions ==
  /\ now = MaxTime
  /\ inputs = {OneInput}
  /\ inMtime = [f \in AllFiles |-> 0]
  /\ helper = NoHelper
  /\ inWidth = [f \in AllFiles |-> 2000]
  /\ manifestFile = [kind |-> "missing", map |-> <<>>]
  /\ \E o \in CallOptions :
       /\ Called(o)
       /\ \/ /\ outFs = [p \in AllPaths |-> NoFile]
             /\ outDirs = {}
             /\ cacheFile = MissingFile
          \/ /\ outFs = LeftOutputs({OneInput}, o, 1)
             /\ outDirs = {BaseName(Rel(OneInput))}
             /\ cacheFile = LeftCache({OneInput}, o)
NextOptions ==
  \/ Glob
  \/ Load
  \/ StartTask
  \/ \E f \in AllFiles : CheckSkip(f)
  \/ \E f \in AllFiles : Recon(f)
  \/ \E f \in AllFiles : Mkdir(f)
  \/ \E f \in AllFiles : Encode(f)
  \/ \E f \in AllFiles : Write(f)
  \/ \E f \in AllFiles : UpdateCache(f)
  \/ AllSettled
  \/ SaveCacheDone
  \/ WriteManifest

SpecOptions == InitOptions /\ [][NextOptions]_vars

\* the decision shouldSkipFile takes for f when the call is made with o
\* instead of opts
DecisionWith(f, o) ==
  ShouldSkipFile([ok |-> TRUE, mtime |-> inMtime[f]], CacheKey(f),
                 AllOutputs(Rel(f), o), GenerateSettingsHash(o), Force(o),
                 cache, outFs)
\* the fingerprint of the call has been computed
Hashed == pc \notin {"idle", "glob", "load"}

\* C19 as stated: options that differ only in concurrency, verbose, quiet,
\* force, dryRun, pattern, sharpCacheFiles, input root or output root have
\* the same fingerprint, so changing only those fields never changes the
\* skip decision of an input or its reason.
C19_IrrelevantFieldsAsStated ==
  Hashed =>
    \A o \in SameButIrrelevant(opts) :
      /\ GenerateSettingsHash(o) = settingsHash
      /\ \A f \in AllFiles :
           task[f].pc = "check" => DecisionWith(f, o) = Decision(f, TRUE)

\* C19: options that differ only in those fields have the same fingerprint;
\* changing only concurrency, verbose, quiet, dryRun or sharpCacheFiles
\* never changes the skip decision of an input or its reason.
C19_IrrelevantFields ==
  Hashed =>
    /\ \A o \in SameButIrrelevant(opts) : GenerateSettingsHash(o) = settingsHash
    /\ \A o \in SameButScheduling(opts) : \A f \in AllFiles :
         task[f].pc = "check" => DecisionWith(f, o) = Decision(f, TRUE)

\* the input is about to be skipped as cached; a call with another
\* concurrency and dryRun set has the same fingerprint
C19_Witness ==
  \E f \in AllFiles :
    /\ task[f].pc = "check"
    /\ Decision(f, TRUE) = SkipCached
    /\ \E o \in SameButScheduling(opts) :
         /\ o.concurrency # opts.concurrency
         /\ o.dryRun = Some(TRUE) /\ ~DryRun(opts)
         /\ GenerateSettingsHash(o) = settingsHash
         /\ DecisionWith(f, o) = SkipCached

\* C20: changing one of quality, effort, formats, sizes, suffix,
\* stripMetadata and withoutEnlargement, every other field held fixed,
\* changes the fingerprint.
C20_RelevantFieldChangesHash ==
  Hashed =>
    \A o \in OneFieldChanged(opts) : GenerateSettingsHash(o) # settingsHash

\* the fingerprint of a call with quality 78 has been computed, and the
\* same options with quality 90 have another one
C20_Witness ==
  /\ Hashed
  /\ opts.quality = Some(DefaultQuality)
  /\ [opts EXCEPT !.quality = Some(90)] \in OneFieldChanged(opts)
  /\ GenerateSettingsHash([opts EXCEPT !.quality = Some(90)]) # settingsHash

(* ----------------------- the effective settings ------------------------ *)
\* the values the destructuring of lines 319-338 gives the nine fields the
\* digest covers: the value passed, or the default of the field
EffectiveSettings(o) ==
  <<OrDefault(o.width, DefaultWidth), o.height, o.sizes, Formats(o), Suffix(o),
    Quality(o), Effort(o), OrDefault(o.stripMetadata, TRUE),
    WithoutEnlargement(o)>>
\* tempOpts of imgxFromFiles (lines 688-700): the destructured values, the
\* defaults filled in
TempOpts(o) ==
  [NoOpts EXCEPT !.input = Some(""), !.output = o.output,
                 !.width = Some(OrDefault(o.width, DefaultWidth)),
                 !.height = o.height, !.sizes = o.sizes,
                 !.formats = Some(Formats(o)), !.suffix = Some(Suffix(o)),
                 !.quality = Some(Quality(o)), !.effort = Some(Effort(o)),
                 !.stripMetadata = Some(OrDefault(o.stripMetadata, TRUE)),
                 !.withoutEnlargement = Some(WithoutEnlargement(o))]
\* settingsHash of imgxFromFiles (line 701)
FromFilesHash(o) == GenerateSettingsHash(TempOpts(o))

\* C21: the fingerprint is a function of the effective configuration: calls
\* whose effective cache-relevant settings are equal have the same
\* fingerprint, also when one leaves a field unset and the other passes the
\* default, and also when one goes through imgx and the other through
\* imgxFromFiles.
C21_HashOfEffectiveSettings ==
  Hashed =>
    \A o \in CallOptions :
      EffectiveSettings(o) = EffectiveSettings(opts) =>
        /\ GenerateSettingsHash(o) = settingsHash
        /\ FromFilesHash(o) = settingsHash

(* ------------------- failures of the final writes ---------------------- *)
\* the error-skip list holds one item per task that threw, with the reason
\* of that task, and nothing else
OnlyTaskErrors ==
  /\ Len(skippedFiles) = Cardinality(Thrown)
  /\ \A i \in 1..Len(skippedFiles) :
       \E f \in Thrown :
         /\ skippedFiles[i].file = Rel(f)
         /\ skippedFiles[i].reason = task[f].thrown

\* C22: when writing the cache file or the manifest file fails at the end of
\* a run, the call of imgx fails: a step of the final writes that does not
\* leave the file written ends the call as failed, never as done, and adds
\* nothing to the error-skip list, which holds the per-input errors only.
C22_WriteFailureSurfaced ==
  /\ [](pc \in {"save", "manifest", "done", "failed"} => OnlyTaskErrors)
  /\ [][/\ (pc = "save" /\ cacheFile' # SaveCache(cache)) =>
             pc' = "failed" /\ skippedFiles' = skippedFiles
        /\ (pc = "manifest"
            /\ manifestFile' # [kind |-> "object", map |-> manifest]) =>
             pc' = "failed" /\ skippedFiles' = skippedFiles]_vars

\* the call has failed in its final writes after one input had failed in
\* its task: the error-skip list holds that input only
C22_Witness ==
  /\ pc = "failed"
  /\ Len(files) = 2
  /\ Cardinality(Thrown) = 1
  /\ Len(skippedFiles) = 1
  /\ cacheFile # SaveCache(cache)

(* ------------------------ the end-to-end example ----------------------- *)
\* SpecExample: calls of imgx, one after another, over three readable inputs
\* with sizes [640, 1000] and formats [webp, avif] on an output root that
\* starts empty, no await rejecting and nothing changing between the calls;
\* the inputs are older than the clock or as old as it.
ExampleInputs == {<<1, "jpg">>, <<2, "jpg">>, <<3, "jpg">>}
ExampleOptions ==
  {[BaseOptions EXCEPT !.formats = Some(<<"webp", "avif">>),
                       !.concurrency = Some(c)] : c \in {1, 3}}
InitExample ==
  /\ now = 1
  /\ inputs = ExampleInputs
  /\ \E t \in {0, 1} : inMtime = [f \in AllFiles |-> t]
  /\ helper = NoHelper
  /\ inWidth = [f \in AllFiles |-> 2000]
  /\ outFs = [p \in AllPaths |-> NoFile]
  /\ outDirs = {}
  /\ cacheFile = MissingFile
  /\ manifestFile = [kind |-> "missing", map |-> <<>>]
  /\ NotCalled
NextExample ==
  \/ \E o \in ExampleOptions : StartRun(o)
  \/ Glob
  \/ Load
  \/ StartTask
  \/ \E f \in AllFiles : CheckSkip(f)
  \/ \E f \in AllFiles : Recon(f)
  \/ \E f \in AllFiles : Mkdir(f)
  \/ \E f \in AllFiles : Encode(f)
  \/ \E f \in AllFiles : Write(f)
  \/ \E f \in AllFiles : UpdateCache(f)
  \/ AllSettled
  \/ SaveCacheDone
  \/ WriteManifest

SpecExample == InitExample /\ [][NextExample]_vars

\* the output files that exist, and those of input f
OutputFiles == {p \in AllPaths : outFs[p].exists}
OutputFilesOf(f) == {p \in OutputFiles : p.base = BaseName(Rel(f))}
\* every input is older than each of its outputs
InputsOlderThanOutputs ==
  \A f \in Enumerated : \A p \in OutputFilesOf(f) : inMtime[f] < outFs[p].mtime
\* the returned manifest and the manifest file have a key for each of the n
\* inputs, with m entries each
ManifestShape(n, m) ==
  /\ Cardinality(DOMAIN manifest) = n
  /\ \A r \in DOMAIN manifest : Len(manifest[r]) = m
  /\ manifestFile = [kind |-> "object", map |-> manifest]

\* C23 as stated: with three inputs, two sizes and two formats, a first run
\* writes six output files per input and eighteen in all, its manifest has
\* three keys with four entries each, and an unchanged re-run calls the
\* codec zero times and reports three cached inputs.
C23_ExampleAsStated ==
  /\ (pc = "done" /\ runs = 1) =>
       /\ \A f \in ExampleInputs : Cardinality(OutputFilesOf(f)) = 6
       /\ Cardinality(OutputFiles) = 18
       /\ ManifestShape(3, 4)
  /\ (pc = "done" /\ runs > 1) =>
       codecCalls = 0 /\ Len(cachedFiles) = 3

\* C23: with three inputs, two sizes and two formats, a first run writes
\* four output files per input and twelve in all, with one codec call each;
\* its manifest has three keys with four entries each; an unchanged re-run
\* over inputs older than their outputs calls the codec zero times and
\* reports three cached inputs.
C23_Example ==
  /\ (pc = "done" /\ runs = 1) =>
       /\ \A f \in ExampleInputs : Cardinality(OutputFilesOf(f)) = 4
       /\ Cardinality(OutputFiles) = 12
       /\ codecCalls = 12
       /\ ManifestShape(3, 4)
  /\ (pc = "done" /\ runs > 1 /\ InputsOlderThanOutputs) =>
       codecCalls = 0 /\ Len(cachedFiles) = 3

\* the re-run has ended with the three inputs cached and twelve output
\* files on disk
C23_Witness ==
  /\ pc = "done"
  /\ runs = 2
  /\ InputsOlderThanOutputs
  /\ Cardinality(OutputFiles) = 12
  /\ Len(cachedFiles) = 3
  /\ codecCalls = 0

(* --------------------------- the categories ---------------------------- *)
\* the places of input f in the cached list and in the error-skip list
CachedOf(f) == {i \in 1..Len(cachedFiles) : cachedFiles[i].file = Rel(f)}
ErrorsOf(f) == {i \in 1..Len(skippedFiles) : skippedFiles[i].file = Rel(f)}

\* C24: at the end of a run every enumerated input is counted in exactly one
\* of the three reported categories, processed (the files list), skipped
\* due to cache, skipped due to error: the categories are pairwise disjoint
\* and together cover the inputs found.
C24_ExactlyOneCategory ==
  pc = "done" =>
    /\ \A f \in Enumerated :
         Cardinality(ResultsOf(f)) + Cardinality(CachedOf(f))
           + Cardinality(ErrorsOf(f)) = 1
    /\ Len(results) + Len(cachedFiles) + Len(skippedFiles) = Len(files)

(* ------------------- imgxFromFiles: inputs and paths ------------------- *)
\* An ImgxFileInput (line 85): a path string dir/name.ext, or a Buffer.
PathInput(d, n) == [kind |-> "path", dir |-> d, name |-> n, ext |-> "jpg"]
BufferInput == [kind |-> "buffer", dir |-> "", name |-> "", ext |-> ""]
AllFileInputs == {PathInput("a", "x"), PathInput("b", "x"), BufferInput}

\* originalIdentifier (lines 716-727): path.basename(fileInput), or
\* `buffer-${index}`; index counts from 0
OriginalIdentifier(fileInput, index) ==
  IF fileInput.kind = "path"
  THEN [name |-> fileInput.name, ext |-> fileInput.ext]
  ELSE [name |-> "buffer-" \o ToString(index), ext |-> ""]
\* originalPath (lines 719 and 724)
OriginalPath(fileInput, index) ==
  IF fileInput.kind = "path" THEN fileInput
  ELSE [kind |-> "path", dir |-> "", name |-> "buffer-" \o ToString(index),
        ext |-> ""]
\* baseName = originalIdentifier.replace(/\.[^.]+$/, "")  (line 730)
IdentifierBaseName(ident) == ident.name
\* outBase (lines 731-733): under the output root, or under os.tmpdir()
\* with Date.now() in the name
FromFilesOutBase(o, ident, t) ==
  IF IsSet(o.output) THEN <<o.output[1], IdentifierBaseName(ident)>>
  ELSE <<"tmp", ToString(t), IdentifierBaseName(ident)>>
\* allOutputs of imgxFromFiles (lines 738-745)
FromFilesPairPath(o, fileInput, index, t, k) ==
  OutPath(FromFilesOutBase(o, OriginalIdentifier(fileInput, index), t),
          SizeSuffix(Suffix(o), PairSize(o, k)), PairFmt(o, k))
FromFilesOutputs(o, fileInput, index, t) ==
  [k \in 1..NumPairs(o) |-> FromFilesPairPath(o, fileInput, index, t, k)]

(* ----------------- two inputs that differ in extension ----------------- *)
\* SpecSameName: one call of imgx over photo 1 as a jpg and as a png in one
\* directory, no await rejecting; the output root is empty or holds what an
\* earlier call over the jpg alone left.
SameNameInputs == {<<1, "jpg">>, <<1, "png">>}
SameNameOptions ==
  {OptionsWith(DefaultQuality, FALSE, dr, c) : dr \in BOOLEAN, c \in {1, 2}}
InitSameName ==
  /\ now = MaxTime
  /\ inputs = SameNameInputs
  /\ inMtime = [f \in AllFiles |-> 0]
  /\ helper = NoHelper
  /\ inWidth = [f \in AllFiles |-> IF f[2] = "jpg" THEN 2000 ELSE 800]
  /\ manifestFile = [kind |-> "missing", map |-> <<>>]
  /\ \E o \in SameNameOptions :
       /\ Called(o)
       /\ \/ /\ outFs = [p \in AllPaths |-> NoFile]
             /\ outDirs = {}
             /\ cacheFile = MissingFile
          \/ /\ outFs = LeftOutputs({<<1, "jpg">>}, o, 1)
             /\ outDirs = {BaseName(Rel(<<1, "jpg">>))}
             /\ cacheFile = LeftCache({<<1, "jpg">>}, o)

SpecSameName == InitSameName /\ [][NextOptions]_vars

\* the elements of a list
Range(seq) == {seq[i] : i \in 1..Len(seq)}

\* C25: no two tasks of a run write, or decide a skip on, the same output
\* path: the expected output paths of two distinct enumerated inputs are
\* disjoint, also for two inputs in one directory that differ only in
\* extension and, in imgxFromFiles, for two path inputs with the same base
\* name.
C25_OutputPathsDisjoint ==
  pc = "dispatch" =>
    /\ \A f, g \in Enumerated :
         f # g =>
           Range(AllOutputs(Rel(f), opts))
             \cap Range(AllOutputs(Rel(g), opts)) = {}
    /\ \A a, b \in AllFileInputs :
         (a # b /\ a.kind = "path" /\ b.kind = "path") =>
           Range(FromFilesOutputs(opts, a, 0, now))
             \cap Range(FromFilesOutputs(opts, b, 1, now)) = {}

(* ----------------------- imgxFromFiles: the call ----------------------- *)
\* imgxFromFiles (lines 628-960) has the locals of imgx and is modelled
\* over the same variables: files is opts.files, results is processedFiles,
\* skippedFiles holds the inputs that were skipped or threw, and a task is
\* named by the place of its input in files (index + 1).
WriteToDisk(o) == OrDefault(o.writeToDisk, TRUE)
ReturnBuffers(o) == OrDefault(o.returnBuffers, TRUE)
\* `output && writeToDisk` (lines 683, 748, 893, 931, 936)
UseDisk(o) == IsSet(o.output) /\ WriteToDisk(o)

\* the options of a call: two sizes, one format
FilesOptions(fs, out, wtd, rb, c) ==
  [files |-> fs, returnBuffers |-> rb, writeToDisk |-> wtd]
    @@ [BaseOptions EXCEPT !.input = Undef, !.output = out,
                           !.concurrency = Some(c)]
\* the lists of inputs passed: none, one path, two paths with the same base
\* name, a path and a buffer, two buffers
FilesLists ==
  {<<>>, <<PathInput("a", "x")>>,
   <<PathInput("a", "x"), PathInput("b", "x")>>,
   <<PathInput("a", "x"), BufferInput>>,
   <<BufferInput, BufferInput>>}
AllFilesOptions ==
  {FilesOptions(fs, out, wtd, rb, c) :
     fs \in FilesLists, out \in {Undef, Some("dist")},
     wtd \in {Undef, Some(FALSE)}, rb \in {Undef, Some(FALSE)}, c \in {1, 2}}

\* the paths under the output root "dist"
FilesPaths ==
  {OutPath(<<"dist", n>>, SizeSuffix(SuffixW, s), "webp") :
     n \in {"x", "buffer-0", "buffer-1"}, s \in AllSizes}
\* `path: writeToDisk ? outPath : ""` (line 872): the empty path
NoPath == OutPath(<<>>, <<>>, "")
\* path.dirname(outPath): the output root or the temporary directory
FilesDirname(path) == path.base[1]

FilesNoTask ==
  [pc |-> "none", k |-> 0, entries |-> <<>>, thrown |-> "none",
   recorded |-> FALSE]

Identifier(i) == OriginalIdentifier(files[i], i - 1)
PathOf(i) == OriginalPath(files[i], i - 1)
OutputsOf(i) == FromFilesOutputs(opts, files[i], i - 1, now)

\* a ProcessedOutput (lines 766-773 and 871-878)
ProcessedOutput(path, fmt, w, file) ==
  [path |-> path, width |-> w, height |-> file.width,
   format |-> fmt, bytes |-> <<file.width, file.quality>>]
\* manifestEntries (lines 894-905)
ManifestEntries(outs, ident) ==
  [j \in 1..Len(outs) |->
     [src |-> outs[j].path, width |-> outs[j].width,
      height |-> outs[j].height, format |-> outs[j].format,
      bytes |-> outs[j].bytes, originalFile |-> ident]]

\* imgxFromFiles(o) has been called and nothing of it has run
FilesCalled(o) ==
  /\ pc = "called"
  /\ opts = o
  /\ files = o.files
  /\ cache = EmptyCache
  /\ settingsHash = GenerateSettingsHash(NoOpts)
  /\ results = <<>>
  /\ skippedFiles = <<>>
  /\ cachedFiles = <<>>
  /\ manifest = <<>>
  /\ queue = <<>>
  /\ active = {}
  /\ task = [i \in 1..Len(o.files) |-> FilesNoTask]
  /\ runs = 1
  /\ codecCalls = 0
  /\ prev = NoPrev
  /\ dirty = FALSE

\* a call that does not validate its options
FilesEnterNoValidation ==
  /\ pc = "called"
  /\ IF Len(files) = 0
     THEN pc' = "done" /\ UNCHANGED <<queue, task>>
     ELSE IF UseDisk(opts)
     THEN pc' = "load" /\ UNCHANGED <<queue, task>>
     ELSE /\ pc' = "dispatch"
          /\ queue' = [i \in 1..Len(files) |-> i]
          /\ task' = [i \in 1..Len(files) |-> [FilesNoTask EXCEPT !.pc = "queued"]]
  /\ UNCHANGED <<durable, opts, files, cache, settingsHash, aggregates,
                 active, runs, codecCalls, prev, dirty>>
\* lines 628-681: the options are validated; an empty list returns at once;
\* with an output root the call awaits loadCache, and without one it hands
\* every input to limit()
FilesEnter ==
  /\ pc = "called"
  /\ IF WriteToDisk(opts) /\ ~IsSet(opts.output)
     THEN pc' = "failed" /\ UNCHANGED <<queue, task>>
     ELSE IF Len(files) = 0
     THEN pc' = "done" /\ UNCHANGED <<queue, task>>
     ELSE IF UseDisk(opts)
     THEN pc' = "load" /\ UNCHANGED <<queue, task>>
     ELSE /\ pc' = "dispatch"
          /\ queue' = [i \in 1..Len(files) |-> i]
          /\ task' = [i \in 1..Len(files) |-> [FilesNoTask EXCEPT !.pc = "queued"]]
  /\ UNCHANGED <<durable, opts, files, cache, settingsHash, aggregates,
                 active, runs, codecCalls, prev, dirty>>

\* loadCache resolves (lines 683-708)
FilesLoad ==
  /\ pc = "load"
  /\ cache' = LoadCache(cacheFile)
  /\ settingsHash' = FromFilesHash(opts)
  /\ queue' = [i \in 1..Len(files) |-> i]
  /\ task' = [i \in 1..Len(files) |-> [FilesNoTask EXCEPT !.pc = "queued"]]
  /\ pc' = "dispatch"
  /\ UNCHANGED <<durable, opts, files, aggregates, active, runs, codecCalls,
                 prev, dirty>>

\* the catch of lines 909-925
FilesCatch(i, reason) ==
  /\ skippedFiles' =
       Append(skippedFiles, [file |-> Identifier(i), reason |-> reason])
  /\ task' = [task EXCEPT ![i].pc = "done", ![i].thrown = reason]
  /\ active' = active \ {i}

\* lines 880-907 when no fs.stat is awaited, and after it otherwise: the
\* manifest entries of the input are assigned under its identifier
FilesRecord(i, outs) ==
  /\ manifest' =
       (Identifier(i) :> ManifestEntries(outs, Identifier(i))) @@ manifest
  /\ task' = [task EXCEPT ![i].pc = "done", ![i].entries = outs,
                          ![i].recorded = TRUE]
  /\ active' = active \ {i}

\* the next (size, format) pair of lines 793-799, or the end of the loops
\* (lines 880-886)
FilesNextPair(i, k, outs) ==
  IF k < NumPairs(opts)
  THEN /\ task' = [task EXCEPT
                     ![i].pc = IF WriteToDisk(opts) THEN "mkdir" ELSE "encode",
                     ![i].k = k + 1, ![i].entries = outs]
       /\ UNCHANGED <<results, manifest, active>>
  ELSE /\ results' = Append(results, [originalPath |-> PathOf(i),
                                      originalIdentifier |-> Identifier(i),
                                      outputs |-> outs])
       /\ IF UseDisk(opts) /\ files[i].kind = "path"
          THEN /\ task' = [task EXCEPT ![i].pc = "stat", ![i].entries = outs]
               /\ UNCHANGED <<manifest, active>>
          ELSE FilesRecord(i, outs)

\* what follows the input being at hand (lines 729-754): the skip check
\* with an output root, the first pair without
FilesAfterInput(i) ==
  IF UseDisk(opts)
  THEN /\ task' = [task EXCEPT ![i].pc = "check"]
       /\ UNCHANGED <<results, manifest>>
  ELSE /\ task' = [task EXCEPT ![i].pc = "encode", ![i].k = 1]
       /\ UNCHANGED <<results, manifest>>

\* limit() starts the next task (lines 711-727): a path is read, a buffer is
\* at hand
FilesStartTask ==
  /\ pc = "dispatch"
  /\ MayStart
  /\ active' = active \cup {Head(queue)}
  /\ queue' = Tail(queue)
  /\ IF files[Head(queue)].kind = "path"
     THEN task' = [task EXCEPT ![Head(queue)].pc = "read"]
     ELSE FilesAfterInput(Head(queue))
  /\ UNCHANGED <<durable, runvars, cache, aggregates, codecCalls>>

\* fs.readFile(fileInput) resolves (line 720)
FilesRead(i) ==
  /\ pc = "dispatch"
  /\ task[i].pc = "read"
  /\ PathOf(i) \in inputs
  /\ FilesAfterInput(i)
  /\ UNCHANGED <<durable, runvars, cache, skippedFiles, cachedFiles, queue,
                 active, codecCalls>>

FilesReadFails(i) ==
  /\ pc = "dispatch"
  /\ task[i].pc = "read"
  /\ FilesCatch(i, "read")
  /\ UNCHANGED <<durable, runvars, cache, results, cachedFiles, manifest,
                 queue, codecCalls>>

\* shouldSkipFile resolves (lines 748-760 and, when it says skip and no
\* buffers are returned, 776-790); "buffer-<index>" is no file
FilesDecision(i) ==
  ShouldSkipFile([ok |-> PathOf(i) \in inputs,
                  mtime |-> IF PathOf(i) \in inputs THEN inMtime[PathOf(i)] ELSE 0],
                 CacheKey(PathOf(i)), OutputsOf(i), settingsHash, FALSE, cache,
                 outFs)
FilesCheck(i) ==
  /\ pc = "dispatch"
  /\ task[i].pc = "check"
  /\ LET d == FilesDecision(i)
     IN IF d.skip
        THEN /\ skippedFiles' =
                  Append(skippedFiles, [file |-> Identifier(i), reason |-> d.reason])
             /\ IF ReturnBuffers(opts)
                THEN /\ task' = [task EXCEPT ![i].pc = "reload", ![i].k = 1]
                     /\ active' = active
                ELSE /\ task' = [task EXCEPT ![i].pc = "done"]
                     /\ active' = active \ {i}
             /\ UNCHANGED <<results, manifest>>
        ELSE /\ skippedFiles' = skippedFiles
             /\ FilesNextPair(i, 0, <<>>)
  /\ UNCHANGED <<durable, runvars, cache, cachedFiles, queue, codecCalls>>

\* one round of the loop of lines 763-775: an expected output is read back,
\* or passed over when it cannot be read; after the last one the input is
\* reported as processed if any output was read (lines 776-790)
FilesReload(i) ==
  /\ pc = "dispatch"
  /\ task[i].pc = "reload"
  /\ LET k == task[i].k
         path == OutputsOf(i)[k]
         file == Stat(outFs, path)
         w == IF SizeMatch(path) THEN ParseInt(path.suffix[1]) ELSE file.width
         outs == IF file.exists
                 THEN Append(task[i].entries,
                             ProcessedOutput(path, path.fmt, w, file))
                 ELSE task[i].entries
     IN IF k < Len(OutputsOf(i))
        THEN /\ task' = [task EXCEPT ![i].k = k + 1, ![i].entries = outs]
             /\ UNCHANGED <<results, active>>
        ELSE /\ task' = [task EXCEPT ![i].pc = "done", ![i].entries = outs]
             /\ active' = active \ {i}
             /\ results' =
                  IF Len(outs) > 0
                  THEN Append(results, [originalPath |-> PathOf(i),
                                        originalIdentifier |-> Identifier(i),
                                        outputs |-> outs])
                  ELSE results
  /\ UNCHANGED <<durable, runvars, cache, skippedFiles, cachedFiles, manifest,
                 queue, codecCalls>>

\* fs.mkdir resolves (lines 800-803)
FilesMkdir(i) ==
  /\ pc = "dispatch"
  /\ task[i].pc = "mkdir"
  /\ outDirs' = outDirs \cup {FilesDirname(OutputsOf(i)[task[i].k])}
  /\ task' = [task EXCEPT ![i].pc = "encode"]
  /\ UNCHANGED <<now, inputs, inMtime, inWidth, helper, outFs, cacheFile, manifestFile,
                 runvars, cache, aggregates, queue, active, codecCalls>>

FilesMkdirFails(i) ==
  /\ pc = "dispatch"
  /\ task[i].pc = "mkdir"
  /\ FilesCatch(i, "mkdir")
  /\ UNCHANGED <<durable, runvars, cache, results, cachedFiles, manifest,
                 queue, codecCalls>>

\* instance.toBuffer() resolves (lines 805-836)
FilesEncode(i) ==
  /\ pc = "dispatch"
  /\ task[i].pc = "encode"
  /\ codecCalls' = codecCalls + 1
  /\ task' = [task EXCEPT ![i].pc = "write"]
  /\ UNCHANGED <<durable, runvars, cache, aggregates, queue, active>>

FilesEncodeFails(i) ==
  /\ pc = "dispatch"
  /\ task[i].pc = "encode"
  /\ codecCalls' = codecCalls + 1
  /\ FilesCatch(i, "codec")
  /\ UNCHANGED <<durable, runvars, cache, results, cachedFiles, manifest,
                 queue>>

\* fs.writeFile, when writing to disk, and sharp(buffer).metadata() resolve
\* (lines 838-879)
FilesWrite(i) ==
  /\ pc = "dispatch"
  /\ task[i].pc = "write"
  /\ LET k == task[i].k
         path == OutputsOf(i)[k]
         w == IF WithoutEnlargement(opts)
              THEN Min(PairSize(opts, k), inWidth[files[i]])
              ELSE PairSize(opts, k)
         file == OutFile(now, w, EncodedQuality(opts, k))
     IN /\ outFs' = IF WriteToDisk(opts) THEN (path :> file) @@ outFs ELSE outFs
        /\ FilesNextPair(i, k,
             Append(task[i].entries,
                    ProcessedOutput(IF WriteToDisk(opts) THEN path ELSE NoPath,
                                    PairFmt(opts, k),
                                    IF file.width # 0 THEN file.width
                                    ELSE PairSize(opts, k),
                                    file)))
  /\ UNCHANGED <<now, inputs, inMtime, inWidth, helper, outDirs, cacheFile,
                 manifestFile, runvars, cache, skippedFiles, cachedFiles,
                 queue, codecCalls>>

FilesWriteFails(i) ==
  /\ pc = "dispatch"
  /\ task[i].pc = "write"
  /\ FilesCatch(i, "write")
  /\ UNCHANGED <<durable, runvars, cache, results, cachedFiles, manifest,
                 queue, codecCalls>>

\* fs.stat(originalPath) resolves (lines 888-907): the cache entry is
\* assigned, an assignment to a property of null being caught, and the
\* manifest entries are recorded
FilesUpdateCache(i) ==
  /\ pc = "dispatch"
  /\ task[i].pc = "stat"
  /\ cache' = IF cache.kind = "null" THEN cache
              ELSE PutEntry(cache,
                     CacheEntry(PathOf(i), inMtime[PathOf(i)], settingsHash,
                                OutputsOf(i), now))
  /\ FilesRecord(i, task[i].entries)
  /\ UNCHANGED <<durable, runvars, results, skippedFiles, cachedFiles, queue,
                 codecCalls>>

\* fs.stat rejects (lines 899-901): no cache entry, the manifest entries
\* are recorded all the same
FilesStatFails(i) ==
  /\ pc = "dispatch"
  /\ task[i].pc = "stat"
  /\ FilesRecord(i, task[i].entries)
  /\ UNCHANGED <<durable, runvars, cache, results, skippedFiles, cachedFiles,
                 queue, codecCalls>>

\* Promise.all resolves (lines 928-933)
FilesAllSettled ==
  /\ pc = "dispatch"
  /\ \A i \in 1..Len(files) : task[i].pc = "done"
  /\ pc' = IF UseDisk(opts) THEN "save" ELSE "done"
  /\ UNCHANGED <<durable, opts, files, cache, settingsHash, aggregates, queue,
                 active, task, runs, codecCalls, prev, dirty>>

\* SpecFromFiles: one call of imgxFromFiles over at most two inputs, every
\* await free to reject.  The paths a/x.jpg (2000 pixels wide) and b/x.jpg
\* (800 wide) exist and are older than the clock; with an output root, the
\* root is empty or holds what an earlier call over a/x.jpg left.
FilesOnDisk == {PathInput("a", "x"), PathInput("b", "x")}
LeftByFiles ==
  [p \in FilesPaths |->
     IF p.base = <<"dist", "x">>
     THEN OutFile(1, ParseInt(p.suffix[1]), DefaultQuality)
     ELSE NoFile]
InitFromFiles ==
  /\ now = MaxTime
  /\ inputs = FilesOnDisk
  /\ inMtime = [p \in FilesOnDisk |-> 0]
  /\ helper = NoHelper
  /\ inWidth = [fi \in AllFileInputs |->
                  IF fi = PathInput("b", "x") THEN 800 ELSE 2000]
  /\ manifestFile = [kind |-> "missing", map |-> <<>>]
  /\ \E o \in AllFilesOptions :
       /\ FilesCalled(o)
       /\ \/ /\ outFs = [p \in FilesPaths |-> NoFile]
             /\ outDirs = {}
             /\ cacheFile = MissingFile
          \/ /\ UseDisk(o)
             /\ outFs = LeftByFiles
             /\ outDirs = {"dist"}
             /\ cacheFile =
                  [kind |-> "object",
                   recs |-> {CacheEntry(PathInput("a", "x"), 0, FromFilesHash(o),
                                        FromFilesOutputs(o, PathInput("a", "x"), 0, 1),
                                        1)}]
FilesTaskStep(i) ==
  \/ FilesRead(i)
  \/ FilesCheck(i)
  \/ FilesReload(i)
  \/ FilesMkdir(i)
  \/ FilesEncode(i)
  \/ FilesWrite(i)
  \/ FilesUpdateCache(i)
FilesTaskFault(i) ==
  \/ FilesReadFails(i)
  \/ FilesMkdirFails(i)
  \/ FilesEncodeFails(i)
  \/ FilesWriteFails(i)
  \/ FilesStatFails(i)
\* the cache file and the manifest file are written as in imgx (lines
\* 930-944 read as lines 572-587 do)
NextFromFiles ==
  \/ FilesEnter
  \/ FilesLoad
  \/ FilesStartTask
  \/ \E i \in 1..Len(files) : FilesTaskStep(i)
  \/ \E i \in 1..Len(files) : FilesTaskFault(i)
  \/ FilesAllSettled
  \/ SaveCacheDone
  \/ SaveCacheFails
  \/ WriteManifest
  \/ WriteManifestFails

SpecFromFiles == InitFromFiles /\ [][NextFromFiles]_vars

\* the task of the input at place i has assigned its manifest entries
Recorded(i) == task[i].recorded

\* C26: in any run the manifest entry list of an input identifier is
\* assigned at most once: no two inputs of a run are recorded under the
\* same manifest key, so the entries an input recorded are those the
\* manifest holds under its key.
C26_ManifestKeyAssignedOnce ==
  \A i, j \in 1..Len(files) :
    (Recorded(i) /\ Recorded(j) /\ i # j) =>
      /\ Identifier(i) # Identifier(j)
      /\ manifest[Identifier(i)] = ManifestEntries(task[i].entries, Identifier(i))

(* ------------------------- an input is deleted ------------------------- *)
\* the manifest file a complete earlier call with options o over the inputs
\* in `done` left
LeftManifest(done, o) ==
  [kind |-> "object",
   map |-> [r \in {Rel(f) : f \in done} |->
              [k \in 1..NumPairs(o) |->
                 ProcessedEntry(r, o, k,
                   OutFile(1, Min(PairSize(o, k), 2000), EncodedQuality(o, k)))]]]

\* SpecDeleted: one call of imgx, every await free to reject, after an
\* earlier call with quality 78 processed NumFiles inputs and one or more
\* of them, maybe all, were deleted from the input root: their outputs,
\* their cache records and their manifest entries are still on disk.
InitDeleted ==
  /\ now = 1
  /\ \E gone \in SUBSET GlobFiles : gone # {} /\ inputs = GlobFiles \ gone
  /\ inMtime = [f \in AllFiles |-> 0]
  /\ helper = NoHelper
  /\ inWidth = [f \in AllFiles |-> 2000]
  /\ outFs = LeftOutputs(GlobFiles, OptionsWith(78, FALSE, FALSE, 1), 1)
  /\ outDirs = {BaseName(Rel(f)) : f \in GlobFiles}
  /\ cacheFile = LeftCache(GlobFiles, OptionsWith(78, FALSE, FALSE, 1))
  /\ manifestFile = LeftManifest(GlobFiles, OptionsWith(78, FALSE, FALSE, 1))
  /\ \E o \in RunOptions : Called(o)

SpecDeleted == InitDeleted /\ [][Next]_vars

\* C27: the persisted cache and the persisted manifest are rebuilt from
\* scratch on every run: after a run that is not a dry run each of them has
\* keys only for inputs enumerated in that run; nothing of an input that is
\* no longer enumerated is carried over.
C27_RebuiltFromScratch ==
  (pc = "done" /\ ~DryRun(opts)) =>
    /\ \A r \in cacheFile.recs : r.inputPath \in Enumerated
    /\ manifestFile.kind = "object" =>
         DOMAIN manifestFile.map \subseteq {Rel(f) : f \in Enumerated}

(* ------------------- reconstruction of the manifest -------------------- *)
\* the reconstruction loop of input f was left at an output that could not
\* be read
ReconAborted(f) == task[f].pc = "done" /\ task[f].broke

\* C28: when an input is skipped and one of its recorded outputs cannot be
\* read during the reconstruction of its manifest entries, the input ends
\* the run with no manifest entries at all, not with a prefix of them; it
\* is reported as skipped due to cache and not as an error.
C28_ReconAbortLeavesNoEntries ==
  \A f \in AllFiles :
    ReconAborted(f) =>
      /\ manifest[Rel(f)] = <<>>
      /\ Skipped(f)
      /\ ErrorsOf(f) = {}

(* ------------------------- a codec call hangs -------------------------- *)
\* the tasks whose instance.toBuffer() will never settle
Hung == {f \in AllFiles : task[f].pc = "hung"}

\* instance.toBuffer() (line 494) of the task of f never returns: the task
\* keeps its place in the pool for good.  Fewer tasks hang than the pool has
\* places.
Hang(f) ==
  /\ pc = "dispatch"
  /\ task[f].pc = "encode"
  /\ Cardinality(Hung) + 1 < opts.concurrency[1]
  /\ codecCalls' = codecCalls + 1
  /\ task' = [task EXCEPT ![f].pc = "hung"]
  /\ UNCHANGED <<durable, runvars, cache, aggregates, queue, active>>

\* SpecHang: one call of imgx as in SpecLive, but a codec call may hang.
\* Every other call returns or throws, and the event loop runs the
\* continuation of every settled promise.
NextHang ==
  \/ Step
  \/ \E f \in AllFiles : Hang(f)

SpecHang == InitLive /\ [][NextHang]_vars /\ WF_vars(Step)

\* C29: a codec call that never returns blocks only its own task: with
\* fewer hung tasks than the pool has places, the queue is drained and the
\* task of every other input is started and settles.
C29_HangBlocksOnlyItsTask ==
  <>(/\ Len(files) > 0
     /\ queue = <<>>
     /\ \A i \in 1..Len(files) : task[files[i]].pc \in {"done", "hung"})

\* one task is stuck in the codec, the pool is otherwise empty and the
\* task of the other input has settled
C29_Witness ==
  /\ pc = "dispatch"
  /\ Cardinality(Hung) = 1
  /\ active = Hung
  /\ queue = <<>>
  /\ \E f \in Enumerated : task[f].pc = "done"

(* --------------------------- no file matches --------------------------- *)
\* the result of lines 349-350: processed 0, no files, no skipped and no
\* cached inputs, totalFound 0, no manifest field
EmptyResult ==
  /\ pc = "done"
  /\ Len(results) = 0
  /\ results = <<>>
  /\ skippedFiles = <<>>
  /\ cachedFiles = <<>>
  /\ Len(files) = 0
  /\ ~IsSet(ReturnedManifest)

\* C30: a run whose pattern matches no file is a normal empty result and
\* not an error: the call returns, at the step that follows the
\* enumeration, processed 0, empty files, skipped and cached lists,
\* totalFound 0 and no manifest, and it writes neither a cache file nor a
\* manifest file.
C30_NoMatchIsEmptyResult ==
  /\ [](inputs = {} =>
          /\ pc \in {"glob", "done"}
          /\ pc = "done" => EmptyResult
          /\ codecCalls = 0)
  /\ [][inputs = {} =>
          /\ pc' = "done"
          /\ UNCHANGED <<cacheFile, manifestFile, outFs, outDirs>>]_vars

\* the call has returned the empty result; the cache file and the manifest
\* file of the earlier call are as they were
C30_Witness ==
  /\ inputs = {}
  /\ EmptyResult
  /\ cacheFile = LeftCache(GlobFiles, OptionsWith(78, FALSE, FALSE, 1))
  /\ manifestFile = LeftManifest(GlobFiles, OptionsWith(78, FALSE, FALSE, 1))

(* --------------------- imgxFromFiles: validation ----------------------- *)
\* `writeToDisk && !output` (line 651)
NoOutputToWriteTo(o) == WriteToDisk(o) /\ ~IsSet(o.output)

\* C31: imgxFromFiles called with writeToDisk true (the default) and no
\* output directory fails before any dispatch: its only step ends the call
\* as failed; no input is read, no cache is loaded, no task exists, the
\* codec is not invoked and nothing is written.
C31_NoOutputFailsBeforeDispatch ==
  /\ [](NoOutputToWriteTo(opts) =>
          /\ pc \in {"called", "failed"}
          /\ queue = <<>> /\ active = {}
          /\ \A i \in 1..Len(files) : task[i] = FilesNoTask
          /\ cache = EmptyCache
          /\ codecCalls = 0
          /\ results = <<>> /\ skippedFiles = <<>> /\ manifest = <<>>)
  /\ [][NoOutputToWriteTo(opts) =>
          /\ pc' = "failed"
          /\ UNCHANGED <<outFs, outDirs, cacheFile, manifestFile>>]_vars

\* a call over two inputs with no output directory and writeToDisk left
\* unset has failed
C31_Witness ==
  /\ pc = "failed"
  /\ Len(files) = 2
  /\ opts.writeToDisk = Undef
  /\ opts.output = Undef

(* ------------------------- HTML helper functions ------------------------ *)
MaxEntries == 3

\* ImageManifestEntry, the fields the helpers read
HelperEntries ==
  [src : {"a", "b"}, width : AllSizes, format : {"webp", "avif", "jpeg"}]

EntryLists ==
  UNION {[1..n -> HelperEntries] : n \in 0..MaxEntries}

\* the optional second argument: a format for generateSrcset, the alt text
\* for generatePicture
HelperArgs == {Undef} \cup {Some(f) : f \in {"webp", "avif", "jpeg"}}

\* entries.filter((e) => e.format === format)
FilterFormat(entries, format) ==
  SelectSeq(entries, LAMBDA e : e.format = format)

\* one step of the stable sort: e goes behind the entries that are not wider
RECURSIVE InsertByWidth(_, _)
InsertByWidth(e, sorted) ==
  IF sorted = <<>> THEN <<e>>
  ELSE IF e.width - Head(sorted).width < 0 THEN <<e>> \o sorted
  ELSE <<Head(sorted)>> \o InsertByWidth(e, Tail(sorted))

SortUnsorted(entries, i) == entries

\* .sort((a, b) => a.width - b.width): stable, ascending
RECURSIVE SortByWidth(_, _)
SortByWidth(entries, i) ==
  IF i = 0 THEN <<>>
  ELSE InsertByWidth(entries[i], SortByWidth(entries, i - 1))

\* `${e.src} ${e.width}w`
RenderEntry(e) == <<e.src, " ", ToString(e.width), "w">>

\* .join(", ") of the rendered entries, as the pieces of the string
RECURSIVE Join(_, _)
Join(items, sep) ==
  IF items = <<>> THEN <<>>
  ELSE IF Len(items) = 1 THEN Head(items)
  ELSE Head(items) \o <<sep>> \o Join(Tail(items), sep)

\* lines 115-117: the array that is sorted, the caller's own without a format
Filtered(entries, format) ==
  IF IsSet(format) THEN FilterFormat(entries, format[1]) ELSE entries

\* lines 111-122
GenerateSrcset(entries, format) ==
  LET filtered == Filtered(entries, format)
      sorted == SortByWidth(filtered, Len(filtered))
  IN Join([i \in 1..Len(sorted) |-> RenderEntry(sorted[i])], ", ")

\* .sort() works in place: without a format the caller's array is reordered
EntriesAfterSrcset(entries, format) ==
  IF IsSet(format) THEN entries ELSE SortByWidth(entries, Len(entries))

\* entries.reduce((prev, current) => prev.width > current.width ? prev : current)
RECURSIVE ReduceLargest(_, _)
ReduceLargest(entries, i) ==
  IF i = 1 THEN entries[1]
  ELSE LET largest == ReduceLargest(entries, i - 1)
       IN IF largest.width > entries[i].width THEN largest ELSE entries[i]

PictureOpen == "<picture>\n"
PictureClose == "</picture>"
SourceOpen == "  <source srcset=\""
AvifType == "\" type=\"image/avif\">\n"
WebpType == "\" type=\"image/webp\">\n"
ImgOpen == "  <img src=\""

\* lines 136-140 and 143-147
SourceLine(entries, type) ==
  IF Len(entries) > 0
  THEN <<SourceOpen>> \o GenerateSrcset(entries, Undef) \o <<type>>
  ELSE <<>>

\* lines 151-156 and 159-164
ImgLine(entries, alt) ==
  <<ImgOpen, ReduceLargest(entries, Len(entries)).src, "\" srcset=\"">>
    \o GenerateSrcset(entries, Undef) \o <<"\" alt=\"", alt, "\">\n">>

PictureWebpFirst(entries, alt) ==
  <<PictureOpen>>
    \o SourceLine(FilterFormat(entries, "webp"), WebpType)
    \o SourceLine(FilterFormat(entries, "avif"), AvifType)
    \o <<PictureClose>>

\* lines 124-169; alt is "" when it is not given
GeneratePicture(entries, alt) ==
  LET webpEntries == FilterFormat(entries, "webp")
      avifEntries == FilterFormat(entries, "avif")
      jpegEntries == FilterFormat(entries, "jpeg")
  IN <<PictureOpen>>
       \o SourceLine(avifEntries, AvifType)
       \o SourceLine(webpEntries, WebpType)
       \o (IF Len(jpegEntries) > 0 THEN ImgLine(jpegEntries, OrDefault(alt, ""))
           ELSE IF Len(entries) > 0 THEN ImgLine(entries, OrDefault(alt, ""))
           ELSE <<>>)
       \o <<PictureClose>>

\* line 161 sorts the caller's array when it holds no JPEG entry
EntriesAfterPicture(entries) ==
  IF Len(FilterFormat(entries, "jpeg")) = 0
  THEN SortByWidth(entries, Len(entries))
  ELSE entries

\* generateSrcset(entries, format) is called and returns
CallGenerateSrcset ==
  /\ helper.pc = "args"
  /\ helper' = [pc |-> "srcset",
                entries |-> EntriesAfterSrcset(helper.entries, helper.arg),
                arg |-> helper.arg,
                ret |-> GenerateSrcset(helper.entries, helper.arg)]
  /\ UNCHANGED <<now, inputs, inMtime, inWidth, outDirs, outFs, cacheFile,
                 manifestFile, runvars, cache, aggregates, queue, active,
                 task, codecCalls>>

\* generatePicture(entries, alt) is called and returns
CallGeneratePicture ==
  /\ helper.pc = "args"
  /\ helper' = [pc |-> "picture",
                entries |-> EntriesAfterPicture(helper.entries),
                arg |-> helper.arg,
                ret |-> GeneratePicture(helper.entries, helper.arg)]
  /\ UNCHANGED <<now, inputs, inMtime, inWidth, outDirs, outFs, cacheFile,
                 manifestFile, runvars, cache, aggregates, queue, active,
                 task, codecCalls>>

\* SpecHelpers: one call of generateSrcset or of generatePicture on any list
\* of at most MaxEntries manifest entries, with and without the second
\* argument; no imgx call is running.
InitHelpers ==
  /\ now = 1
  /\ inputs = {}
  /\ inMtime = [f \in AllFiles |-> 0]
  /\ inWidth = [f \in AllFiles |-> 2000]
  /\ outDirs = {}
  /\ outFs = [p \in AllPaths |-> NoFile]
  /\ cacheFile = MissingFile
  /\ manifestFile = [kind |-> "missing", map |-> <<>>]
  /\ NotCalled
  /\ \E es \in EntryLists, a \in HelperArgs :
       helper = [pc |-> "args", entries |-> es, arg |-> a, ret |-> <<>>]

NextHelpers == CallGenerateSrcset \/ CallGeneratePicture

SpecHelpers == InitHelpers /\ [][NextHelpers]_vars

\* the entries generateSrcset has to list
Matching == Filtered(helper.entries, helper.arg)

Orders(n) ==
  {p \in [1..n -> 1..n] : \A i, j \in 1..n : p[i] = p[j] => i = j}

\* C32: generateSrcset(entries, format) returns the entries whose format is
\* the given one, all entries when no format is given, every one of them
\* exactly once and no other entry, each rendered as '<src> <width>w', in
\* ascending order of width, joined by ', '.
C32_SrcsetListsMatchingAscending ==
  helper.pc = "srcset" =>
    \E p \in Orders(Len(Matching)) :
      /\ \A i, j \in 1..Len(Matching) :
           i < j => Matching[p[i]].width <= Matching[p[j]].width
      /\ helper.ret =
           Join([i \in 1..Len(Matching) |->
                   <<Matching[p[i]].src, " ",
                     ToString(Matching[p[i]].width), "w">>], ", ")

C32_Witness ==
  /\ helper.pc = "srcset"
  /\ helper.arg = Some("webp")
  /\ Len(helper.entries) = 3
  /\ helper.entries[1].format = "webp" /\ helper.entries[1].width = 1000
  /\ helper.entries[2].format = "avif"
  /\ helper.entries[3].format = "webp" /\ helper.entries[3].width = 640
  /\ helper.ret = <<"a", " ", "640", "w", ", ", "b", " ", "1000", "w">>

\* the places of a piece in the returned string
Positions(piece) == {i \in 1..Len(helper.ret) : helper.ret[i] = piece}

HasFormat(format) == Len(FilterFormat(helper.entries, format)) > 0

\* the entries the img element may show: the JPEG ones if there are any
ImgPool ==
  IF HasFormat("jpeg") THEN FilterFormat(helper.entries, "jpeg")
  ELSE helper.entries

\* C33: generatePicture emits a picture element with at most one AVIF
\* source, then at most one WebP source, then at most one img, in that
\* order; the source of a format is present exactly when entries of that
\* format exist; the img shows the widest JPEG entry when there is a JPEG
\* entry, otherwise the widest entry of any format, and is absent only when
\* there are no entries.
C33_PictureStructure ==
  helper.pc = "picture" =>
    /\ helper.ret[1] = PictureOpen
    /\ helper.ret[Len(helper.ret)] = PictureClose
    /\ Cardinality(Positions(AvifType)) = IF HasFormat("avif") THEN 1 ELSE 0
    /\ Cardinality(Positions(WebpType)) = IF HasFormat("webp") THEN 1 ELSE 0
    /\ Cardinality(Positions(SourceOpen))
         = Cardinality(Positions(AvifType)) + Cardinality(Positions(WebpType))
    /\ Cardinality(Positions(ImgOpen)) = IF helper.entries = <<>> THEN 0 ELSE 1
    /\ \A i \in Positions(AvifType), j \in Positions(WebpType) : i < j
    /\ \A i \in Positions(AvifType) \cup Positions(WebpType),
          j \in Positions(ImgOpen) : i < j
    /\ \A j \in Positions(ImgOpen) :
         \E k \in 1..Len(ImgPool) :
           /\ \A l \in 1..Len(ImgPool) : ImgPool[l].width <= ImgPool[k].width
           /\ helper.ret[j + 1] = ImgPool[k].src

C33_Witness ==
  /\ helper.pc = "picture"
  /\ Len(helper.entries) = 3
  /\ HasFormat("avif") /\ HasFormat("webp") /\ ~HasFormat("jpeg")
  /\ helper.entries[1].width = 640 /\ helper.entries[1].src = "a"
  /\ helper.entries[3].width = 1000 /\ helper.entries[3].src = "b"
  /\ \E j \in Positions(ImgOpen) : helper.ret[j + 1] = "b"

(* ------------------------ the command line: options --------------------- *)
\* what the user typed: an option's value when it is given, the flags given
Argv ==
  [width : {Undef, Some("1000"), Some("640")},
   quality : {Undef, Some("78"), Some("90")},
   noStripMetadata : BOOLEAN, noEnlarge : BOOLEAN, force : BOOLEAN]

\* the config file loadConfig() found, {} when there is none (index.ts,
\* lines 254-266)
FileConfigs ==
  [width : {Undef, Some(800)},
   quality : {Undef, Some(90)},
   stripMetadata : {Undef, Some(FALSE)},
   withoutEnlargement : {Undef, Some(FALSE)},
   force : {Undef, Some(TRUE)}]

CliNumbers == {78, 90, 640, 800, 1000}

\* Number("640")
Number(s) == CHOOSE n \in CliNumbers : ToString(n) = s

\* commander: an option declared with a default value has that value when it
\* is not given (lines 14, 37, 53); --no-strip-metadata and --no-enlarge
\* declare the options stripMetadata and enlarge, true unless negated (lines
\* 49-50); no option is named noEnlarge
Commander(argv) ==
  [width |-> OrDefault(argv.width, "1000"),
   quality |-> OrDefault(argv.quality, "78"),
   stripMetadata |-> Some(~argv.noStripMetadata),
   enlarge |-> Some(~argv.noEnlarge),
   noEnlarge |-> Undef,
   force |-> argv.force]

\* lines 78-113
Merge(cliOpts, fileConfig) ==
  [width |-> IF cliOpts.width # "" THEN Number(cliOpts.width)
             ELSE OrDefault(fileConfig.width, 1000),
   quality |-> IF cliOpts.quality # "78" THEN Number(cliOpts.quality)
               ELSE OrDefault(fileConfig.quality, 78),
   stripMetadata |-> IF IsSet(cliOpts.stripMetadata)
                     THEN cliOpts.stripMetadata[1]
                     ELSE OrDefault(fileConfig.stripMetadata, TRUE),
   withoutEnlargement |-> IF IsSet(cliOpts.noEnlarge)
                          THEN ~cliOpts.noEnlarge[1]
                          ELSE OrDefault(fileConfig.withoutEnlargement, TRUE),
   force |-> cliOpts.force \/ OrDefault(fileConfig.force, FALSE)]

\* the object passed to imgx (line 117), the modelled fields of it
ConfigOptions(config) ==
  [NoOpts EXCEPT !.input = Some("src"), !.output = Some("dist"),
                 !.width = Some(config.width),
                 !.quality = Some(config.quality),
                 !.stripMetadata = Some(config.stripMetadata),
                 !.withoutEnlargement = Some(config.withoutEnlargement),
                 !.force = Some(config.force)]

NoConfig ==
  [width |-> 0, quality |-> 0, stripMetadata |-> FALSE,
   withoutEnlargement |-> FALSE, force |-> FALSE]

\* program.parseAsync(process.argv), line 154: commander fills opts
ParseArgv ==
  /\ helper.pc = "argv"
  /\ helper' = [helper EXCEPT !.pc = "action", !.opts = Commander(helper.argv)]
  /\ UNCHANGED <<now, inputs, inMtime, inWidth, outDirs, outFs, cacheFile,
                 manifestFile, runvars, cache, aggregates, queue, active,
                 task, codecCalls>>

\* the action handler, lines 59-117: the merge, then imgx(config) is called
CliAction ==
  /\ helper.pc = "action"
  /\ LET config == Merge(helper.opts, helper.fileConfig)
     IN /\ helper' = [helper EXCEPT !.pc = "imgx", !.config = config]
        /\ opts' = ConfigOptions(config)
  /\ pc' = "glob"
  /\ runs' = runs + 1
  /\ UNCHANGED <<now, inputs, inMtime, inWidth, outDirs, outFs, cacheFile,
                 manifestFile, files, settingsHash, prev, dirty, cache,
                 aggregates, queue, active, task, codecCalls>>

\* SpecCli: the command line is run once with any of the modelled options
\* given or not, with any config file; it ends where imgx(config) is called.
InitCli ==
  /\ now = 1
  /\ inputs = GlobFiles
  /\ inMtime = [f \in AllFiles |-> 0]
  /\ inWidth = [f \in AllFiles |-> 2000]
  /\ outDirs = {}
  /\ outFs = [p \in AllPaths |-> NoFile]
  /\ cacheFile = MissingFile
  /\ manifestFile = [kind |-> "missing", map |-> <<>>]
  /\ NotCalled
  /\ \E a \in Argv, fc \in FileConfigs :
       helper = [pc |-> "argv", argv |-> a, fileConfig |-> fc,
                 opts |-> Commander([width |-> Undef, quality |-> Undef,
                                     noStripMetadata |-> FALSE,
                                     noEnlarge |-> FALSE, force |-> FALSE]),
                 config |-> NoConfig]

NextCli == ParseArgv \/ CliAction

SpecCli == InitCli /\ [][NextCli]_vars

\* C34: the effective value of every option follows the precedence CLI >
\* config file > built-in default: an option given on the command line has
\* the command line's value, also when that value equals the built-in
\* default (--quality 78 with quality 90 in the config file) and for the
\* negated flags --no-enlarge and --no-strip-metadata.
C34_CliOverConfigOverDefault ==
  helper.pc = "imgx" =>
    /\ IsSet(helper.argv.width) =>
         opts.width = Some(Number(helper.argv.width[1]))
    /\ IsSet(helper.argv.quality) =>
         opts.quality = Some(Number(helper.argv.quality[1]))
    /\ helper.argv.noStripMetadata => opts.stripMetadata = Some(FALSE)
    /\ helper.argv.noEnlarge => opts.withoutEnlargement = Some(FALSE)
    /\ helper.argv.force => opts.force = Some(TRUE)

\* C35: an option that is not given on the command line and is set in the
\* config file has the config file's value; so for width, stripMetadata and
\* withoutEnlargement.
C35_ConfigWhenNotOnCli ==
  helper.pc = "imgx" =>
    /\ (~IsSet(helper.argv.width) /\ IsSet(helper.fileConfig.width)) =>
         opts.width = helper.fileConfig.width
    /\ (~IsSet(helper.argv.quality) /\ IsSet(helper.fileConfig.quality)) =>
         opts.quality = helper.fileConfig.quality
    /\ (~helper.argv.noStripMetadata /\ IsSet(helper.fileConfig.stripMetadata))
         => opts.stripMetadata = helper.fileConfig.stripMetadata
    /\ (~helper.argv.noEnlarge /\ IsSet(helper.fileConfig.withoutEnlargement))
         => opts.withoutEnlargement = helper.fileConfig.withoutEnlargement
    /\ (~helper.argv.force /\ IsSet(helper.fileConfig.force)) =>
         opts.force = helper.fileConfig.force

(* ------------------- the shared aggregation state ----------------------- *)
IsPrefix(s, t) == Len(s) <= Len(t) /\ SubSeq(t, 1, Len(s)) = s

\* the task of f ended in the skip branch: it never entered the loops
EndedInSkipBranch(f) ==
  task[f].pc = "done" /\ task[f].thrown = "none" /\ task[f].k = 0

\* C36: no update of the shared aggregation state is lost under any
\* interleaving of the tasks: a step of one task keeps what the other tasks
\* put into the files list, the cached list, the error-skip list, the
\* manifest and the in-memory cache, and when a task has ended its own
\* contribution is in them.
C36_NoLostUpdate ==
  /\ [](\A f \in AllFiles :
          task[f].pc = "done" =>
            /\ task[f].thrown # "none" =>
                 \E i \in ErrorsOf(f) : skippedFiles[i].reason = task[f].thrown
            /\ task[f].thrown = "none" =>
                 /\ ResultsOf(f) # {}
                 /\ Rel(f) \in DOMAIN manifest
                 /\ manifest[Rel(f)] = task[f].entries
            /\ EndedInSkipBranch(f) => CachedOf(f) # {}
            /\ (ProcessedAndRecorded(f) /\ ~DryRun(opts)) =>
                 \E r \in RecordsOf(cache, f) : r.settingsHash = settingsHash)
  /\ [][(pc = "dispatch" /\ pc' = "dispatch") =>
          /\ IsPrefix(results, results')
          /\ IsPrefix(cachedFiles, cachedFiles')
          /\ IsPrefix(skippedFiles, skippedFiles')
          /\ \A rel \in DOMAIN manifest :
               rel \in DOMAIN manifest' /\ manifest'[rel] = manifest[rel]
          /\ \A r \in cache.recs :
               \E r2 \in cache'.recs :
                 /\ r2.key = r.key
                 /\ r2 # r => \E f \in AllFiles :
                                /\ r.key = CacheKey(f)
                                /\ task[f].pc = "stat"
                                /\ task'[f].pc = "done"]_vars

C36_Witness ==
  /\ pc = "done"
  /\ opts.concurrency = Some(2)
  /\ Len(results) = 2
  /\ results[1].in = Rel(<<2, "jpg">>)
  /\ results[2].in = Rel(<<1, "jpg">>)
  /\ Cardinality(DOMAIN manifest) = 2
  /\ Cardinality(cache.recs) = 2
  /\ Len(cachedFiles) = 1

(* ------------------ the same inputs under every schedule ---------------- *)
\* SpecSchedules: one call of imgx over photo 1 as a jpg and as a png and
\* photo 2, on an empty output root, with every concurrency limit and every
\* interleaving of the tasks; no await rejects.
ScheduleInputs == {<<1, "jpg">>, <<1, "png">>, <<2, "jpg">>}
ScheduleOptions ==
  {OptionsWith(DefaultQuality, FALSE, dr, c) : dr \in BOOLEAN, c \in 1..3}
InitSchedules ==
  /\ now = MaxTime
  /\ inputs = ScheduleInputs
  /\ inMtime = [f \in AllFiles |-> 0]
  /\ helper = NoHelper
  /\ inWidth = [f \in AllFiles |-> 2000]
  /\ manifestFile = [kind |-> "missing", map |-> <<>>]
  /\ outFs = [p \in AllPaths |-> NoFile]
  /\ outDirs = {}
  /\ cacheFile = MissingFile
  /\ \E o \in ScheduleOptions : Called(o)

\* no cache entry exists when a task decides, so nothing is reconstructed
NextSchedules ==
  \/ Glob
  \/ Load
  \/ StartTask
  \/ \E f \in AllFiles : CheckSkip(f)
  \/ \E f \in AllFiles : Mkdir(f)
  \/ \E f \in AllFiles : Encode(f)
  \/ \E f \in AllFiles : Write(f)
  \/ \E f \in AllFiles : UpdateCache(f)
  \/ AllSettled
  \/ SaveCacheDone
  \/ WriteManifest

SpecSchedules == InitSchedules /\ [][NextSchedules]_vars

\* the inputs that are skipped when the tasks of files[i..] run one after
\* the other, in the order of the list, from the output files fs and the
\* cache c: the run with concurrency 1
RECURSIVE SkippedOneAtATime(_, _, _)
SkippedOneAtATime(i, fs, c) ==
  IF i > Len(files) THEN {}
  ELSE LET f == files[i]
           decision ==
             ShouldSkipFile([ok |-> TRUE, mtime |-> inMtime[f]], CacheKey(f),
                            AllOutputs(Rel(f), opts), settingsHash,
                            Force(opts), c, fs)
       IN IF decision.skip THEN {f} \cup SkippedOneAtATime(i + 1, fs, c)
          ELSE IF DryRun(opts) THEN SkippedOneAtATime(i + 1, fs, c)
          ELSE SkippedOneAtATime(
                 i + 1,
                 [p \in DOMAIN fs |->
                    IF \E k \in 1..NumPairs(opts) : PairPath(Rel(f), opts, k) = p
                    THEN LET k == CHOOSE k \in 1..NumPairs(opts) :
                                    PairPath(Rel(f), opts, k) = p
                         IN OutFile(now, EncodedWidth(f, opts, k),
                                    EncodedQuality(opts, k))
                    ELSE fs[p]],
                 PutEntry(c, CacheEntry(f, inMtime[f], settingsHash,
                                        AllOutputs(Rel(f), opts), now)))

\* C37: for a fixed initial filesystem, cache and configuration and a
\* deterministic codec the outcome of each input, processed or skipped, and
\* the keys of the final manifest and of the final cache are the same for
\* every interleaving of the tasks and every concurrency limit: they are
\* those of the run that takes the tasks one at a time.
C37_SameOutcomeUnderEverySchedule ==
  pc = "done" =>
    LET skipped == SkippedOneAtATime(1, [p \in AllPaths |-> NoFile], EmptyCache)
    IN /\ \A f \in Enumerated : Skipped(f) <=> f \in skipped
       /\ DOMAIN manifest = {Rel(f) : f \in Enumerated}
       /\ DryRun(opts) => cache.recs = {}
       /\ ~DryRun(opts) =>
            {r.key : r \in cache.recs} = {CacheKey(f) : f \in Enumerated \ skipped}

(* ----------------- an input modified after it was processed ------------- *)
\* SpecStale: the outputs and the cache record of one input were produced at
\* time 0 and the input was modified at time 1; then up to MaxRuns calls of
\* imgx follow, the clock free to advance between them and a write free to
\* fail.
StaleOptions == {OptionsWith(DefaultQuality, fo, FALSE, 1) : fo \in BOOLEAN}
InitStale ==
  /\ now = 1
  /\ inputs = {OneInput}
  /\ inMtime = [f \in AllFiles |-> 1]
  /\ helper = NoHelper
  /\ inWidth = [f \in AllFiles |-> 2000]
  /\ outFs = LeftOutputs({OneInput}, OptionsWith(DefaultQuality, FALSE, FALSE, 1), 0)
  /\ outDirs = {BaseName(Rel(OneInput))}
  /\ cacheFile = LeftCache({OneInput}, OptionsWith(DefaultQuality, FALSE, FALSE, 1))
  /\ manifestFile = [kind |-> "missing", map |-> <<>>]
  /\ NotCalled

NextStale ==
  \/ \E o \in StaleOptions : StartRun(o)
  \/ Glob
  \/ Load
  \/ StartTask
  \/ \E f \in AllFiles : CheckSkip(f)
  \/ \E f \in AllFiles : Recon(f)
  \/ \E f \in AllFiles : Mkdir(f)
  \/ \E f \in AllFiles : Encode(f)
  \/ \E f \in AllFiles : Write(f)
  \/ \E f \in AllFiles : WriteFails(f)
  \/ \E f \in AllFiles : UpdateCache(f)
  \/ AllSettled
  \/ SaveCacheDone
  \/ WriteManifest
  \/ Tick

SpecStale == InitStale /\ [][NextStale]_vars

\* the output at p was written after the outputs of time 0 were produced
Rewritten(p) == outFs[p].exists /\ outFs[p].mtime > 0

\* C38: once an input with several expected outputs has been modified after
\* its outputs were produced, no later run without force reports it skipped
\* until some run has rewritten all of its outputs; a run that fails after it
\* rewrote only some of them does not make the next run skip the input.
C38_SkippedOnlyAfterAllRewritten ==
  (~Force(opts) /\ Skipped(OneInput)) =>
    \A p \in ExpectedPaths(OneInput) : Rewritten(p)

(* ------------------- the manifest of an unchanged re-run ---------------- *)
\* SpecNarrow: up to MaxRuns calls of imgx, one after another, over a wide
\* input and one narrower than the largest requested size, with the suffix
\* '{w}w' or '{w}px' and enlargement disabled (the default) or allowed; the
\* output root starts empty, no await rejects and nothing changes between the
\* calls.
NarrowInput == <<2, "jpg">>
NarrowOptions ==
  {[BaseOptions EXCEPT !.suffix = Some(s), !.withoutEnlargement = we,
                       !.concurrency = Some(1)] :
     s \in AllSuffixes, we \in {Undef, Some(FALSE)}}
InitNarrow ==
  /\ now = 1
  /\ inputs = {<<1, "jpg">>, NarrowInput}
  /\ inMtime = [f \in AllFiles |-> 0]
  /\ helper = NoHelper
  /\ inWidth = [f \in AllFiles |-> IF f = NarrowInput THEN 800 ELSE 2000]
  /\ outFs = [p \in AllPaths |-> NoFile]
  /\ outDirs = {}
  /\ cacheFile = MissingFile
  /\ manifestFile = [kind |-> "missing", map |-> <<>>]
  /\ NotCalled

NextNarrow ==
  \/ \E o \in NarrowOptions : StartRun(o)
  \/ Glob
  \/ Load
  \/ StartTask
  \/ \E f \in AllFiles : CheckSkip(f)
  \/ \E f \in AllFiles : Recon(f)
  \/ \E f \in AllFiles : Mkdir(f)
  \/ \E f \in AllFiles : Encode(f)
  \/ \E f \in AllFiles : Write(f)
  \/ \E f \in AllFiles : UpdateCache(f)
  \/ AllSettled
  \/ SaveCacheDone
  \/ WriteManifest

SpecNarrow == InitNarrow /\ [][NextNarrow]_vars

\* this call repeats, with nothing changed, a call that processed every
\* input, and it has skipped every input
UnchangedRerunSkippedAll ==
  /\ prev.valid /\ prev.allProcessed /\ prev.opts = opts
  /\ pc = "manifest"
  /\ \A f \in Enumerated : Skipped(f)

\* C39: the manifest returned by an unchanged re-run that skips every input
\* equals the manifest of the run that produced the outputs, entry for entry,
\* also for an input narrower than a requested size with enlargement disabled
\* and for a suffix other than '{w}w'.
C39_RerunManifestEqualsProduced ==
  UnchangedRerunSkippedAll => manifest = manifestFile.map

(* ------------------- what a run changes in the cache -------------------- *)
\* the cache as it was loaded: the cache file is not written before the
\* tasks have settled
LoadedCache == LoadCache(cacheFile)

\* C40: a run changes the cache only at the keys of the inputs it processed
\* successfully: for an input that was skipped, that failed or that was not
\* enumerated, and for every input in a dry run, the record to be saved
\* equals the loaded one; an input that failed gets no manifest key either.
C40_CacheChangedOnlyForProcessed ==
  /\ pc \in {"dispatch", "save"} =>
       \A f \in AllFiles :
         (~ProcessedAndRecorded(f) \/ DryRun(opts)) =>
           RecordsOf(cache, f) = RecordsOf(LoadedCache, f)
  /\ \A f \in Thrown : Rel(f) \notin DOMAIN manifest

====
